---- MODULE Spec2Model ----
(***************************************************************************)
(* Solar prediction service: the state cache (StateManager), the weather   *)
(* client, the prediction pipeline (PredictionService.predict) and the     *)
(* event loop they run on.  Time is counted in quarter-hours (the         *)
(* provider's minutely_15 resolution).                                     *)
(***************************************************************************)
EXTENDS Integers, Sequences, FiniteSets, TLC

\* An Optional value is a sequence of length 0 (Python's None) or 1.
None == <<>>
Some(x) == <<x>>
IsNone(o) == o = <<>>
Val(o) == o[1]

\* The outcome of a call that may raise.
Raise == [tag |-> "raise"]
Ok(x) == [tag |-> "ok", value |-> x]
Raised(r) == r.tag = "raise"

\* ---- bounds of the model ----
MaxPlants == 2        \* longest active-plant list the Model-Manager returns
MaxModels == 2        \* longest active-model metadata list
MaxPoints == 3        \* most raw samples in one provider response
MaxPred == 3          \* longest output vector of a model's predict
MaxCalls == 4
MaxTicks == 5         \* quarter-hours the wall clock advances
MaxPairs == 2         \* longest value list handed to _calculate_metric
MaxBatch == 2         \* longest batch handed to a repository
MaxRows == 2          \* most rows of an uploaded CSV file

\* ---- program constants ----
QuartersPerHour == 4                 \* minutely_15 samples per hour
CronHours == {0, 6, 12, 18}          \* hour="0,6,12,18"
CronMinute == 0                      \* minute=0
FirstCron == 6                       \* the cron hour the model starts before
StartClock == FirstCron * QuartersPerHour - 1
SupportedFileType == "joblib"
HoursPerDay == 24
MaxInstances == 1                    \* job_defaults["max_instances"]
QuarterSeconds == 900                \* seconds in one step of the clock
\* A grace period of one day.
MisfireGraceDay == HoursPerDay * QuartersPerHour * QuarterSeconds
MisfireGraceTime == 60               \* job_defaults["misfire_grace_time"], seconds

Min(a, b) == IF a < b THEN a ELSE b

\* All sequences over S of length at most n.
SeqsUpTo(S, n) == UNION {[1..k -> S] : k \in 0..n}
DistinctIds(s) == \A i, j \in 1..Len(s) : i # j => s[i].id # s[j].id

\* create_prediction_scheduler: an AsyncIOScheduler not started, without job.
create_prediction_scheduler == [state |-> "stopped", jobs |-> {}]

\* ---- the Model-Manager's registry (the inputs of refresh_state) ----
PlantCatalogue ==
    { [id |-> 1, latitude |-> Some(45), longitude |-> Some(16), capacity |-> Some(1000)],
      [id |-> 2, latitude |-> Some(46), longitude |-> Some(15), capacity |-> Some(500)],
      [id |-> 2, latitude |-> None, longitude |-> Some(15), capacity |-> Some(500)] }
PlantIds == {p.id : p \in PlantCatalogue}

\* file_type selects the decoder; artifact is what the download endpoint
\* holds for the model: "ok", "missing" (request fails) or "corrupt"
\* (joblib.load raises).
ModelCatalogue ==
    { [id |-> 1, plant_id |-> 1, features |-> <<"shortwave_radiation", "hour">>,
       file_type |-> "joblib", artifact |-> "ok"],
      [id |-> 2, plant_id |-> 1, features |-> <<"made_up_feature">>,
       file_type |-> "joblib", artifact |-> "ok"],
      [id |-> 3, plant_id |-> 1, features |-> <<"hour">>,
       file_type |-> "zip", artifact |-> "ok"],
      [id |-> 4, plant_id |-> 2, features |-> <<"hour">>,
       file_type |-> "joblib", artifact |-> "missing"],
      [id |-> 5, plant_id |-> 1, features |-> <<"hour">>,
       file_type |-> "joblib", artifact |-> "corrupt"],
      [id |-> 6, plant_id |-> 2, features |-> <<"capacity">>,
       file_type |-> "joblib", artifact |-> "ok"],
      [id |-> 7, plant_id |-> 1, features |-> <<"hour", "hour">>,
       file_type |-> "joblib", artifact |-> "ok"] }

ListsOver(Catalogue, n) == {s \in SeqsUpTo(Catalogue, n) : DistinctIds(s)}
PlantLists == ListsOver(PlantCatalogue, MaxPlants)
ModelLists == ListsOver(ModelCatalogue, MaxModels)

VARIABLES
    now,               \* wall clock, in quarter-hours
    phase,             \* lifespan: "init", "startup", "serving"
    dbReady,           \* db_manager.pool is set
    isRunning,         \* PredictionScheduler._is_running
    scheduler,         \* PredictionScheduler.scheduler: its state and its jobs
    lastFire,          \* cron time the job last fired at
    instances,         \* the executor's count of running instances of the job
    running,           \* calls of predict() that have begun and not ended
    overdue,           \* the job's run time passed while a run held the loop
    triggerLog,        \* what became of each run time of the job
    pool,              \* db_manager.pool: "unset", "open" or "closed"
    wfStore,           \* rows of the weather_forecasts table
    predStore,         \* rows of the power_predictions table
    lostWrites,        \* batch inserts that found no open pool
    lastWrite,         \* the records of the last executemany that ran
    readingsStore,     \* rows of the power_readings table
    hmStore,           \* rows of the horizon_metrics table
    cmStore,           \* rows of the cycle_metrics table
    upPc,              \* position of the POST /reading/{plant_id} handler
    upReq,             \* the upload being handled: plant id and CSV rows
    upVal,             \* its CSVValidationResult
    upResp,            \* its CSVUploadResponse
    upEvents,          \* what the handler has done, in order
    apiResp,           \* the last answer of the other POST endpoints
    calcLog,           \* the runs of calculate_horizon_metrics_by_model
    fnIn, fnOut,       \* an application of _calculate_metric: input, outcome
    pc,                \* position of the synchronous code on the event loop
    caller,            \* who called refresh_state: "lifespan" or "predict"
    activePlants,      \* StateManager._active_power_plants (ordered dict)
    activeModels,      \* StateManager._active_models: plant id -> list
    plantsResp,        \* power_plants still to store (local of the refresh)
    metaTodo,          \* models_metadata still to load (local of the refresh)
    plantsTodo,        \* plants still to fetch weather for (local of predict)
    weatherForecasts,  \* weather_forecasts collected by this run
    fIdx, mIdx,        \* position of the forecast / model loops
    tasks,             \* background persistence tasks created, not yet run
    before,            \* the maps when the refresh in progress began
    refreshLog,        \* what the Model-Manager answered to the last refresh
    fetchLog,          \* per plant of this run: the provider's raw answer
    attempts,          \* per model of this run: what inference returned
    result,            \* outcome of predict(): "none", "running", "returned", "raised"
    statusReq,         \* a GET /internal/status request waiting for the loop
    obs                \* what the last GET /internal/status read

vars == <<now, phase, dbReady, isRunning, scheduler, lastFire, instances, running, overdue,
          triggerLog, pool, wfStore, predStore, lostWrites, lastWrite, readingsStore, hmStore,
          cmStore, upPc, upReq, upVal, upResp, upEvents, apiResp, calcLog, fnIn, fnOut, pc, caller, activePlants,
          activeModels, plantsResp, metaTodo, plantsTodo, weatherForecasts,
          fIdx, mIdx, tasks, before, refreshLog, fetchLog, attempts, result,
          statusReq, obs>>

stateVars == <<activePlants, activeModels>>
refreshLocals == <<plantsResp, metaTodo>>
runVars == <<plantsTodo, weatherForecasts, fIdx, mIdx, fetchLog, attempts, result>>
lifeVars == <<phase, dbReady, isRunning, scheduler, lastFire>>
readVars == <<statusReq, obs>>
jobVars == <<instances, running, overdue, triggerLog>>
\* What the steps of the state cache and of the inference loop leave alone.
dbVars == <<pool, wfStore, predStore, lostWrites, lastWrite>>
metricVars == <<readingsStore, hmStore, cmStore, calcLog, fnIn, fnOut>>
uploadVars == <<upPc, upReq, upVal, upResp, upEvents, apiResp>>
farVars == <<dbVars, metricVars, uploadVars>>
restVars == <<jobVars, farVars>>

NoModels == [p \in PlantIds |-> <<>>]
View == [plants |-> activePlants, models |-> activeModels]
\* Nothing asked yet: each field becomes Some(answer), the answer being Optional.
NoLog == [plants |-> None, models |-> None]

\* The tables and the handlers of the readings and metrics endpoints before
\* any request.
NoRequests ==
    /\ readingsStore = {}
    /\ hmStore = {}
    /\ cmStore = {}
    /\ upPc = "idle"
    /\ upReq = None
    /\ upVal = None
    /\ upResp = None
    /\ upEvents = <<>>
    /\ apiResp = None
    /\ calcLog = <<>>
    /\ fnIn = None
    /\ fnOut = None

Init ==
    /\ NoRequests
    /\ now = StartClock
    /\ phase = "init"
    /\ dbReady = FALSE
    /\ isRunning = FALSE
    /\ scheduler = create_prediction_scheduler
    /\ lastFire = -1
    /\ instances = 0
    /\ running = 0
    /\ overdue = FALSE
    /\ triggerLog = <<>>
    /\ pool = "unset"
    /\ wfStore = {}
    /\ predStore = {}
    /\ lostWrites = 0
    /\ lastWrite = None
    /\ pc = "idle"
    /\ caller = "none"
    /\ activePlants = <<>>
    /\ activeModels = NoModels
    /\ plantsResp = <<>>
    /\ metaTodo = <<>>
    /\ plantsTodo = <<>>
    /\ weatherForecasts = <<>>
    /\ fIdx = 1
    /\ mIdx = 1
    /\ tasks = <<>>
    /\ before = None
    /\ refreshLog = NoLog
    /\ fetchLog = <<>>
    /\ attempts = <<>>
    /\ result = "none"
    /\ statusReq = "none"
    /\ obs = None

\* ---------------------------------------------------------------------
\* StateManager: the state cache and its refresh
\* ---------------------------------------------------------------------

\* dict[key] = value on an insertion-ordered dict keyed by id.
DictSet(d, p) ==
    IF \E i \in 1..Len(d) : d[i].id = p.id
    THEN [i \in 1..Len(d) |-> IF d[i].id = p.id THEN p ELSE d[i]]
    ELSE Append(d, p)

get_active_power_plants == activePlants

get_active_models_for_power_plant(plant_id) ==
    IF plant_id \in DOMAIN activeModels THEN activeModels[plant_id] ELSE <<>>

get_active_power_plant(plant_id) ==
    IF \E i \in 1..Len(activePlants) : activePlants[i].id = plant_id
    THEN Some(activePlants[CHOOSE i \in 1..Len(activePlants) :
                                 activePlants[i].id = plant_id])
    ELSE None

\* None when the request fails, else the bytes.
download_model_file(md) ==
    IF md.artifact = "missing" THEN None ELSE Some(md.artifact)

\* JoblibModel(metadata, file_content) runs joblib.load in its constructor.
JoblibModel(md, file) ==
    IF file = "corrupt" THEN Raise
    ELSE Ok([metadata |-> md, features |-> md.features, plant_id |-> md.plant_id])

create_model(md, file) ==
    IF md.file_type = SupportedFileType THEN JoblibModel(md, file) ELSE Raise

RefreshPcs == {"rp_clear", "rp_fetch", "rp_store", "rm_clear", "rm_fetch", "rm_load"}

\* Where the caller of refresh_state continues.
AfterRefresh == IF caller = "lifespan" THEN "ls_sched" ELSE "pr_plants"

\* _refresh_power_plant_state, line 31: clear before fetching.
refresh_plants_clear ==
    /\ pc = "rp_clear"
    /\ before' = Some(View)
    /\ refreshLog' = NoLog
    /\ activePlants' = <<>>
    /\ pc' = "rp_fetch"
    /\ UNCHANGED <<restVars, now, lifeVars, caller, activeModels, refreshLocals, runVars,
                   tasks, readVars>>

\* _refresh_power_plant_state, lines 33-41: the fetch and the null test.
refresh_plants_fetch(Responses) ==
    /\ pc = "rp_fetch"
    /\ \E power_plants \in Responses :
         /\ refreshLog' = [refreshLog EXCEPT !.plants = Some(power_plants)]
         /\ IF ~IsNone(power_plants)
            THEN /\ activePlants' = <<>>
                 /\ plantsResp' = Val(power_plants)
                 /\ pc' = "rp_store"
            ELSE /\ pc' = "rm_clear"
                 /\ UNCHANGED <<activePlants, plantsResp>>
    /\ UNCHANGED <<restVars, now, lifeVars, caller, activeModels, metaTodo, runVars, tasks,
                   before, readVars>>

\* _refresh_power_plant_state, lines 37-38: one iteration of the store loop.
refresh_plants_store ==
    /\ pc = "rp_store"
    /\ IF plantsResp = <<>>
       THEN /\ pc' = "rm_clear"
            /\ UNCHANGED <<activePlants, plantsResp>>
       ELSE /\ activePlants' = DictSet(activePlants, Head(plantsResp))
            /\ plantsResp' = Tail(plantsResp)
            /\ pc' = "rp_store"
    /\ UNCHANGED <<restVars, now, lifeVars, caller, activeModels, metaTodo, runVars, tasks,
                   before, refreshLog, readVars>>

\* _refresh_model_state, line 49.
refresh_models_clear ==
    /\ pc = "rm_clear"
    /\ activeModels' = NoModels
    /\ pc' = "rm_fetch"
    /\ UNCHANGED <<restVars, now, lifeVars, caller, activePlants, refreshLocals, runVars,
                   tasks, before, refreshLog, readVars>>

\* _refresh_model_state, lines 51-56.
refresh_models_fetch(Responses) ==
    /\ pc = "rm_fetch"
    /\ \E models_metadata \in Responses :
         /\ refreshLog' = [refreshLog EXCEPT !.models = Some(models_metadata)]
         /\ IF IsNone(models_metadata)
            THEN /\ pc' = AfterRefresh
                 /\ UNCHANGED metaTodo
            ELSE /\ metaTodo' = Val(models_metadata)
                 /\ pc' = "rm_load"
    /\ UNCHANGED <<restVars, now, lifeVars, caller, stateVars, plantsResp, runVars, tasks,
                   before, readVars>>

\* What one iteration of the load loop (lines 58-72) does with the head of
\* the metadata list: "skip" (continue), "abort" (the exception leaves the
\* loop for the handler of line 74) or the decoded model.
LoadOutcome(md) ==
    LET model_file == download_model_file(md) IN
    IF IsNone(model_file) THEN [tag |-> "skip"]
    ELSE IF Raised(create_model(md, Val(model_file))) THEN [tag |-> "abort"]
    ELSE [tag |-> "model", model |-> create_model(md, Val(model_file)).value]

refresh_models_load ==
    /\ pc = "rm_load"
    /\ IF metaTodo = <<>>
       THEN /\ pc' = AfterRefresh
            /\ UNCHANGED <<activeModels, metaTodo>>
       ELSE LET md == Head(metaTodo)
                r == LoadOutcome(md)
            IN  IF r.tag = "skip"
                THEN /\ metaTodo' = Tail(metaTodo)
                     /\ pc' = "rm_load"
                     /\ UNCHANGED activeModels
                ELSE IF r.tag = "abort"
                THEN /\ metaTodo' = <<>>
                     /\ pc' = AfterRefresh
                     /\ UNCHANGED activeModels
                ELSE /\ activeModels' =
                          [activeModels EXCEPT ![md.plant_id] = Append(@, r.model)]
                     /\ metaTodo' = Tail(metaTodo)
                     /\ pc' = "rm_load"
    /\ UNCHANGED <<restVars, now, lifeVars, caller, activePlants, plantsResp, runVars, tasks,
                   before, refreshLog, readVars>>

\* ---------------------------------------------------------------------
\* Weather client and WeatherForecastService
\* ---------------------------------------------------------------------

\* What the provider may answer to one request: a failure, or up to MaxPoints
\* raw samples, each of which parses (TRUE) or not (FALSE).
WeatherAnswers ==
    {[tag |-> "error"]} \cup
    {[tag |-> "data", parses |-> f] : f \in SeqsUpTo(BOOLEAN, MaxPoints)}

\* Python truthiness of an Optional number: `not x`.
Falsy(o) == IsNone(o) \/ Val(o) = 0

\* now.replace(minute=0, second=0, microsecond=0)
NormalizedTime(clock) == (clock \div QuartersPerHour) * QuartersPerHour

\* The raw response to a request with start_minutely_15 = fetch_time: sample
\* i is at fetch_time + 15 min * (i - 1).
RawResponse(fetch_time, parses) ==
    [i \in 1..Len(parses) |-> [time |-> fetch_time + (i - 1), ok |-> parses[i]]]

\* None, or Some(<<fetch_time, response>>).
fetch_weather_forecast(power_plant, answer, clock) ==
    IF Falsy(power_plant.latitude) \/ Falsy(power_plant.longitude) THEN None
    ELSE IF answer.tag = "error" THEN None
    ELSE Some(<<NormalizedTime(clock),
                RawResponse(NormalizedTime(clock), answer.parses)>>)

RECURSIVE ParsedPoints(_)
ParsedPoints(samples) ==
    IF samples = <<>> THEN <<>>
    ELSE IF Head(samples).ok
         THEN <<[time |-> Head(samples).time]>> \o ParsedPoints(Tail(samples))
         ELSE ParsedPoints(Tail(samples))

_get_weather_point_list(response) ==
    LET weather_point_list == ParsedPoints(response) IN
    IF Len(weather_point_list) > 0 THEN Tail(weather_point_list)
    ELSE weather_point_list

_to_weather_forecast(plant_id, fetch_time, response) ==
    [power_plant_id |-> plant_id,
     forecast_data |-> _get_weather_point_list(response),
     fetch_time |-> fetch_time]

\* `created_at, open_meteo_response = ...` raises TypeError on None.
get_weather_forecast(power_plant, answer, clock) ==
    LET r == fetch_weather_forecast(power_plant, answer, clock) IN
    IF IsNone(r) THEN Raise
    ELSE Ok(_to_weather_forecast(power_plant.id, Val(r)[1], Val(r)[2]))

\* ---------------------------------------------------------------------
\* DataPreparationService
\* ---------------------------------------------------------------------

WeatherFeatures ==
    {"temperature_2m", "relative_humidity_2m", "cloud_cover", "cloud_cover_low",
     "cloud_cover_mid", "wind_speed_10m", "wind_direction_10m",
     "shortwave_radiation", "shortwave_radiation_instant", "diffuse_radiation",
     "diffuse_radiation_instant", "direct_normal_irradiance",
     "et0_fao_evapotranspiration", "vapour_pressure_deficit", "is_day",
     "sunshine_duration", "direct_radiation_instant"}
TimeFeatures ==
    {"datetime", "hour", "month", "day", "day_of_year", "week_of_year",
     "day_of_week", "hour_sin", "hour_cos", "month_sin", "month_cos"}
PlantFeatures == {"capacity", "latitude", "longitude", "elevation"}
SupportedFeatures == WeatherFeatures \cup TimeFeatures \cup PlantFeatures

HourOf(t) == (t \div QuartersPerHour) % HoursPerDay

\* The registered calculator of a feature name: an Optional value.  The
\* "datetime" calculator returns the point's time itself, not a number.
Calculator(name, data_point, context) ==
    IF name \in WeatherFeatures
    THEN IF name \in DOMAIN data_point THEN data_point[name] ELSE None
    ELSE IF name = "datetime" THEN Some([datetime |-> data_point.time])
    ELSE IF name = "hour" THEN Some(HourOf(data_point.time))
    ELSE IF name = "capacity" THEN context.power_plant_capacity
    ELSE None

\* float(value) of what the calculator of `name` returned: a datetime is
\* no number and raises TypeError, every other calculator returns a number.
ToFloat(name, value) == IF name = "datetime" THEN Raise ELSE Ok(value)

_calculate_features_all_or_nothing(data_point, model_features, context) ==
    LET Fails(j) ==
            LET value == Calculator(model_features[j], data_point, context) IN
            IsNone(value) \/ Raised(ToFloat(model_features[j], Val(value)))
    IN  [j \in 1..Len(model_features) |->
            IF \E k \in 1..Len(model_features) : Fails(k) THEN 0
            ELSE Val(Calculator(model_features[j], data_point, context))]

_calculate_features_for_data_point(data_point, model_features, context) ==
    [j \in 1..Len(model_features) |->
        LET value == Calculator(model_features[j], data_point, context) IN
        IF IsNone(value) THEN 0
        ELSE IF Raised(ToFloat(model_features[j], Val(value))) THEN 0
        ELSE ToFloat(model_features[j], Val(value)).value]

_validate_first_feature(model_features) ==
    IF model_features # <<>> /\ model_features[1] \notin SupportedFeatures
    THEN Raise ELSE Ok(TRUE)

_validate_features(model_features) ==
    IF \E i \in 1..Len(model_features) : model_features[i] \notin SupportedFeatures
    THEN Raise ELSE Ok(TRUE)

prepare_data_newest_first(weather_forecast, model_features, power_plant_capacity) ==
    IF Raised(_validate_features(model_features)) THEN Raise
    ELSE LET context == [power_plant_capacity |-> power_plant_capacity,
                         power_plant_id |-> weather_forecast.power_plant_id]
             n == Len(weather_forecast.forecast_data)
         IN  Ok([i \in 1..n |->
                   _calculate_features_for_data_point(
                       weather_forecast.forecast_data[n + 1 - i], model_features,
                       context)])

prepare_data(weather_forecast, model_features, power_plant_capacity) ==
    IF Raised(_validate_features(model_features)) THEN Raise
    ELSE LET context == [power_plant_capacity |-> power_plant_capacity,
                         power_plant_id |-> weather_forecast.power_plant_id]
         IN  Ok([i \in 1..Len(weather_forecast.forecast_data) |->
                   _calculate_features_for_data_point(
                       weather_forecast.forecast_data[i], model_features, context)])

\* ---------------------------------------------------------------------
\* Repositories and the database pool
\* ---------------------------------------------------------------------

\* The conflict targets of the two insert statements.
ForecastKey(r) == <<r.forecast_time, r.plant_id, r.created_at>>
PredictionKey(r) == <<r.prediction_time, r.model_id, r.created_at>>

\* INSERT ... ON CONFLICT (forecast_time, plant_id, created_at) DO NOTHING
InsertForecast(table, row) ==
    IF \E r \in table : ForecastKey(r) = ForecastKey(row) THEN table
    ELSE table \cup {row}

\* The insert had it been ON CONFLICT ... DO UPDATE.
UpsertPrediction(table, row) ==
    {r \in table : PredictionKey(r) # PredictionKey(row)} \cup {row}

\* INSERT ... ON CONFLICT (prediction_time, model_id, created_at) DO NOTHING
InsertPrediction(table, row) ==
    IF \E r \in table : PredictionKey(r) = PredictionKey(row) THEN table
    ELSE table \cup {row}

\* executemany: the statement once per record, in order.
RECURSIVE ExecuteManyForecasts(_, _)
ExecuteManyForecasts(table, records) ==
    IF records = <<>> THEN table
    ELSE ExecuteManyForecasts(InsertForecast(table, Head(records)), Tail(records))

RECURSIVE ExecuteManyPredictions(_, _)
ExecuteManyPredictions(table, records) ==
    IF records = <<>> THEN table
    ELSE ExecuteManyPredictions(InsertPrediction(table, Head(records)), Tail(records))

\* _save_weather_forecast_async, lines 58-81: one record per data point.
ForecastRecords(forecast) ==
    [i \in 1..Len(forecast.forecast_data) |->
        [forecast_time |-> forecast.forecast_data[i].time,
         plant_id |-> forecast.power_plant_id,
         created_at |-> forecast.fetch_time,
         data |-> forecast.forecast_data[i]]]

\* _save_power_predictions_batch_async, lines 121-130.
PredictionRecords(predictions) ==
    [i \in 1..Len(predictions) |->
        [prediction_time |-> predictions[i].prediction_time,
         model_id |-> predictions[i].model_id,
         created_at |-> predictions[i].created_at,
         predicted_power |-> predictions[i].predicted_power,
         horizon |-> predictions[i].horizon]]

\* The task loop.create_task makes of the batch; nothing keeps a reference
\* to it.  started: the task has had its first turn on the loop and waits
\* for an insert.
save_weather_forecasts_batch(forecasts) ==
    [kind |-> "forecasts", batch |-> forecasts, started |-> FALSE]
save_power_predictions_batch(predictions) ==
    [kind |-> "predictions", batch |-> predictions, started |-> FALSE]

\* pool.acquire() succeeds on an open pool only: it is an AttributeError on
\* None and an InterfaceError on a closed pool, both caught and logged by
\* the repositories.
Acquirable == pool = "open"

\* ---------------------------------------------------------------------
\* PredictionService
\* ---------------------------------------------------------------------

\* Fields PowerPrediction declares without a default.
RequiredFields == {"prediction_time", "model_id", "created_at", "horizon"}

\* The pydantic constructor: a missing required field raises, an unknown
\* keyword is ignored, an omitted optional field is None.
PowerPrediction(kw) ==
    IF ~(RequiredFields \subseteq DOMAIN kw) THEN Raise
    ELSE Ok([prediction_time |-> kw.prediction_time,
             model_id |-> kw.model_id,
             created_at |-> kw.created_at,
             predicted_power |-> IF "predicted_power" \in DOMAIN kw
                                 THEN Some(kw.predicted_power) ELSE None,
             horizon |-> kw.horizon])

\* The keywords line 110-116 passes for forecast point i.
RowKeywords(predictions, weather_forecast, model, i) ==
    [prediction_time |-> weather_forecast.forecast_data[i].time,
     model_id |-> model.metadata.id,
     plant_id |-> weather_forecast.power_plant_id,
     created_at |-> weather_forecast.fetch_time,
     predicted_power_mw |-> predictions[i]]

_map_to_power_predictions(predictions, weather_forecast, model) ==
    LET n == Min(Len(predictions), Len(weather_forecast.forecast_data))
        row(i) == PowerPrediction(RowKeywords(predictions, weather_forecast, model, i))
    IN  IF \E i \in 1..n : Raised(row(i)) THEN Raise
        ELSE Ok([i \in 1..n |-> row(i).value])

\* What model.predict may return: an exception or a vector of any length.
PredictAnswers == {Raise} \cup {Ok(m) : m \in 0..MaxPred}
PredValue(i) == 10 * i
Predictions(m) == [i \in 1..m |-> PredValue(i)]

\* predict(), line 33: power_plants = get_active_power_plants().
predict_list_plants ==
    /\ pc = "pr_plants"
    /\ plantsTodo' = get_active_power_plants
    /\ pc' = "wf_fetch"
    /\ UNCHANGED <<restVars, now, lifeVars, caller, stateVars, refreshLocals, weatherForecasts,
                   fIdx, mIdx, fetchLog, attempts, result, tasks, before,
                   refreshLog, readVars>>

\* One iteration of get_weather_forecast_for_all_power_plants.  An exception
\* of get_weather_forecast is caught nowhere in predict(): it ends the run.
fetch_next_plant(Answers) ==
    /\ pc = "wf_fetch"
    /\ plantsTodo # <<>>
    /\ \E answer \in Answers :
         LET power_plant == Head(plantsTodo)
             wf == get_weather_forecast(power_plant, answer, now)
         IN  IF Raised(wf)
             THEN /\ fetchLog' = Append(fetchLog,
                          [plant_id |-> power_plant.id, raw |-> None])
                  /\ result' = "raised"
                  /\ pc' = "idle"
                  /\ plantsTodo' = <<>>
                  /\ before' = None
                  /\ refreshLog' = NoLog
                  /\ instances' = instances - 1
                  /\ running' = running - 1
                  /\ UNCHANGED weatherForecasts
             ELSE /\ fetchLog' = Append(fetchLog,
                          [plant_id |-> power_plant.id,
                           raw |-> Some(RawResponse(NormalizedTime(now), answer.parses))])
                  /\ weatherForecasts' = Append(weatherForecasts, wf.value)
                  /\ plantsTodo' = Tail(plantsTodo)
                  /\ pc' = "wf_fetch"
                  /\ UNCHANGED <<result, before, refreshLog, instances, running>>
    /\ UNCHANGED <<overdue, triggerLog, farVars, now, lifeVars, caller, stateVars,
                   refreshLocals, fIdx, mIdx, attempts, tasks, readVars>>

\* predict(), line 43: save_weather_forecasts creates the background task.
save_weather_forecasts ==
    /\ pc = "wf_fetch"
    /\ plantsTodo = <<>>
    /\ tasks' = Append(tasks, save_weather_forecasts_batch(weatherForecasts))
    /\ fIdx' = 1
    /\ mIdx' = 1
    /\ pc' = "pm_loop"
    /\ UNCHANGED <<restVars, now, lifeVars, caller, stateVars, refreshLocals, plantsTodo,
                   weatherForecasts, fetchLog, attempts, result, before,
                   refreshLog, readVars>>

\* _create_predictions_for_model under the try/except of lines 66-73: what it
\* leaves in the log and, when it reaches line 96, the batch it saves.
ModelAttempt(weather_forecast, model, answer) ==
    LET plant == get_active_power_plant(weather_forecast.power_plant_id)
        base == [plant_id |-> weather_forecast.power_plant_id,
                 model_id |-> model.metadata.id,
                 n |-> Len(weather_forecast.forecast_data),
                 m |-> -1, rows |-> <<>>]
        inputs == IF IsNone(plant) THEN Raise
                  ELSE prepare_data(weather_forecast, model.features,
                                    Val(plant).capacity)
    IN  IF Raised(inputs) THEN [base EXCEPT !.m = -1] @@ [stage |-> "prepare_failed"]
        ELSE IF Raised(answer) THEN base @@ [stage |-> "predict_failed"]
        ELSE LET predictions == Predictions(answer.value)
                 mapped == _map_to_power_predictions(predictions, weather_forecast, model)
             IN  IF Raised(mapped)
                 THEN [base EXCEPT !.m = answer.value] @@ [stage |-> "map_failed"]
                 ELSE [base EXCEPT !.m = answer.value, !.rows = mapped.value]
                      @@ [stage |-> "saved"]

\* One iteration of the loops of lines 48 and 66.
create_predictions_for_model(Answers) ==
    /\ pc = "pm_loop"
    /\ fIdx <= Len(weatherForecasts)
    /\ LET wf == weatherForecasts[fIdx]
           models == get_active_models_for_power_plant(wf.power_plant_id)
       IN  IF mIdx > Len(models)
           THEN /\ fIdx' = fIdx + 1
                /\ mIdx' = 1
                /\ UNCHANGED <<attempts, tasks>>
           ELSE \E answer \in Answers :
                  LET a == ModelAttempt(wf, models[mIdx], answer) IN
                  /\ attempts' = Append(attempts, a)
                  /\ tasks' = IF a.stage = "saved"
                              THEN Append(tasks, save_power_predictions_batch(a.rows))
                              ELSE tasks
                  /\ mIdx' = mIdx + 1
                  /\ UNCHANGED fIdx
    /\ UNCHANGED <<restVars, now, lifeVars, caller, stateVars, refreshLocals, plantsTodo,
                   weatherForecasts, fetchLog, result, pc, before, refreshLog,
                   readVars>>

\* predict() returns; _execute_predictions logs the completion and the
\* executor counts the instance as finished.
predict_return ==
    /\ pc = "pm_loop"
    /\ fIdx > Len(weatherForecasts)
    /\ result' = "returned"
    /\ pc' = "idle"
    /\ before' = None
    /\ refreshLog' = NoLog
    /\ instances' = instances - 1
    /\ running' = running - 1
    /\ UNCHANGED <<overdue, triggerLog, farVars, now, lifeVars, caller, stateVars, refreshLocals, plantsTodo,
                   weatherForecasts, fIdx, mIdx, fetchLog, attempts, tasks, readVars>>

\* ---------------------------------------------------------------------
\* Lifespan, scheduler, event loop
\* ---------------------------------------------------------------------

IsCronTime(clock) ==
    /\ clock % QuartersPerHour = CronMinute
    /\ (clock \div QuartersPerHour) % HoursPerDay \in CronHours

\* lifespan, lines 87-93: a failed pool initialisation raises into the
\* handler of line 97, which logs; the application then serves.
lifespan_startup ==
    /\ phase = "init"
    /\ \E db_success \in BOOLEAN :
         /\ dbReady' = db_success
         /\ pool' = IF db_success THEN "open" ELSE pool
         /\ IF db_success
            THEN /\ phase' = "startup"
                 /\ caller' = "lifespan"
                 /\ pc' = "rp_clear"
            ELSE /\ phase' = "serving"
                 /\ UNCHANGED <<caller, pc>>
    /\ UNCHANGED <<jobVars, wfStore, predStore, lostWrites, lastWrite, metricVars, uploadVars,
                   now, isRunning, scheduler, lastFire, stateVars, refreshLocals, runVars, tasks,
                   before, refreshLog, readVars>>

\* PredictionScheduler.start, lines 16-29, on the flag and the
\* AsyncIOScheduler: APScheduler's start() raises
\* SchedulerAlreadyRunningError unless its state is stopped;
\* registration_raises: _setup_prediction_jobs raises.
start(is_running, sched, registration_raises) ==
    IF is_running
    THEN [is_running |-> is_running, scheduler |-> sched, raised |-> FALSE]
    ELSE IF sched.state # "stopped"
    THEN [is_running |-> FALSE, scheduler |-> sched, raised |-> TRUE]
    ELSE IF registration_raises
    THEN [is_running |-> FALSE, scheduler |-> [sched EXCEPT !.state = "running"],
          raised |-> TRUE]
    ELSE [is_running |-> TRUE,
          scheduler |-> [state |-> "running",
                         jobs |-> sched.jobs \cup {"prediction_generation"}],
          raised |-> FALSE]

\* PredictionScheduler.stop, lines 31-44; shutdown leaves the jobs in the
\* memory job store.
stop(is_running, sched) ==
    IF ~is_running
    THEN [is_running |-> is_running, scheduler |-> sched, raised |-> FALSE]
    ELSE IF sched.state = "stopped"
    THEN [is_running |-> is_running, scheduler |-> sched, raised |-> TRUE]
    ELSE [is_running |-> FALSE, scheduler |-> [sched EXCEPT !.state = "stopped"],
          raised |-> FALSE]

\* PredictionScheduler.get_status, lines 70-87.
scheduler_get_status(is_running, sched) ==
    IF ~is_running THEN [running |-> FALSE, jobs |-> {}]
    ELSE [running |-> is_running, jobs |-> sched.jobs]

\* lifespan, line 95: prediction_scheduler.start(); the job's first run is
\* the first cron time after the start.
scheduler_start ==
    /\ pc = "ls_sched"
    /\ isRunning' = start(isRunning, scheduler, FALSE).is_running
    /\ scheduler' = start(isRunning, scheduler, FALSE).scheduler
    /\ lastFire' = now
    /\ phase' = "serving"
    /\ pc' = "idle"
    /\ before' = None
    /\ refreshLog' = NoLog
    /\ UNCHANGED <<restVars, now, dbReady, caller, stateVars, refreshLocals, runVars, tasks,
                   readVars>>

\* The first cron time after `last`.
NextFire(last) ==
    CHOOSE t \in (last + 1)..(last + HoursPerDay * QuartersPerHour) :
        /\ IsCronTime(t)
        /\ \A u \in (last + 1)..(t - 1) : ~IsCronTime(u)

TriggerDue == isRunning /\ NextFire(lastFire) <= now

\* The misfire test of the executor: the run is skipped when the job is
\* late by more than misfire_grace_time.  A job whose run time passed while
\* the loop was held is late by anything up to the time since then; one the
\* idle loop woke up for is on time.
MayRun(run_time) == (now - run_time) * QuarterSeconds <= MisfireGraceTime
MayMiss(run_time) ==
    /\ now > run_time \/ overdue
    /\ (now - run_time + 1) * QuarterSeconds - 1 > MisfireGraceTime
MisfireOutcomes(run_time) ==
    {o \in {"run", "missed"} :
        \/ o = "run" /\ MayRun(run_time)
        \/ o = "missed" /\ MayMiss(run_time)}

\* The job coroutine is a task of the event loop: it starts only when no
\* synchronous code holds the loop.
job_startable == pc = "idle"

\* The scheduler wakes up for the job's run time: it submits the job unless
\* max_instances instances are running, and the job coroutine then runs
\* _execute_predictions unless the run time is missed.
execute_predictions ==
    /\ TriggerDue
    /\ job_startable
    /\ LET run_time == NextFire(lastFire)
           entry(o) == [run_time |-> run_time, at |-> now, during_run |-> overdue,
                        active |-> running, outcome |-> o]
       IN  /\ lastFire' = run_time
           /\ overdue' = FALSE
           /\ IF instances >= MaxInstances
              THEN /\ triggerLog' = Append(triggerLog, entry("max_instances"))
                   /\ UNCHANGED <<instances, running, caller, pc, runVars, obs>>
              ELSE \E o \in MisfireOutcomes(run_time) :
                     /\ triggerLog' = Append(triggerLog, entry(o))
                     /\ IF o = "missed"
                        THEN UNCHANGED <<instances, running, caller, pc, runVars, obs>>
                        ELSE /\ instances' = instances + 1
                             /\ running' = running + 1
                             /\ caller' = "predict"
                             /\ pc' = "rp_clear"
                             /\ result' = "running"
                             /\ plantsTodo' = <<>>
                             /\ weatherForecasts' = <<>>
                             /\ fIdx' = 1
                             /\ mIdx' = 1
                             /\ fetchLog' = <<>>
                             /\ attempts' = <<>>
                             /\ obs' = None
    /\ UNCHANGED <<farVars, now, phase, dbReady, isRunning, scheduler, stateVars, refreshLocals,
                   tasks, before, refreshLog, statusReq>>

RemoveAt(q, i) == [k \in 1..(Len(q) - 1) |-> IF k < i THEN q[k] ELSE q[k + 1]]

\* The first turn of a task.  loop.create_task puts the first step of the
\* coroutine at the end of the loop's queue of ready callbacks, which the
\* loop runs first in, first out once the synchronous code has returned:
\* the task created first is the first to begin.  A task with an empty
\* batch returns 0 in that turn without touching the pool.
start_any_task ==
    /\ pc = "idle"
    /\ \E i \in 1..Len(tasks) :
         /\ ~tasks[i].started
         /\ tasks' = IF tasks[i].batch = <<>> THEN RemoveAt(tasks, i)
                     ELSE [tasks EXCEPT ![i].started = TRUE]
    /\ UNCHANGED <<jobVars, dbVars, metricVars, uploadVars, now, lifeVars, pc, caller,
                   stateVars, refreshLocals, runVars, before, refreshLog, readVars>>

start_task ==
    /\ pc = "idle"
    /\ \E i \in 1..Len(tasks) :
         /\ ~tasks[i].started
         /\ \A j \in 1..(i - 1) : tasks[j].started
         /\ tasks' = IF tasks[i].batch = <<>> THEN RemoveAt(tasks, i)
                     ELSE [tasks EXCEPT ![i].started = TRUE]
    /\ UNCHANGED <<jobVars, dbVars, metricVars, uploadVars, now, lifeVars, pc, caller,
                   stateVars, refreshLocals, runVars, before, refreshLog, readVars>>

\* A task that began gets the loop again and runs to its next suspension:
\* a predictions task does its one executemany, a forecasts task the
\* executemany of its next forecast (lines 49-52).
run_task ==
    /\ pc = "idle"
    /\ \E i \in {k \in 1..Len(tasks) : tasks[k].started} :
         LET t == tasks[i] IN
         IF t.kind = "predictions"
         THEN /\ tasks' = RemoveAt(tasks, i)
              /\ IF Acquirable
                 THEN /\ predStore' = ExecuteManyPredictions(predStore,
                                                           PredictionRecords(t.batch))
                      /\ lastWrite' = Some(PredictionRecords(t.batch))
                      /\ UNCHANGED lostWrites
                 ELSE /\ lostWrites' = lostWrites + 1
                      /\ UNCHANGED <<predStore, lastWrite>>
              /\ UNCHANGED wfStore
         ELSE /\ tasks' = IF Len(t.batch) = 1 THEN RemoveAt(tasks, i)
                          ELSE [tasks EXCEPT ![i] = [t EXCEPT !.batch = Tail(@),
                                                              !.started = TRUE]]
              /\ IF Acquirable
                 THEN /\ wfStore' = ExecuteManyForecasts(wfStore,
                                                        ForecastRecords(Head(t.batch)))
                      /\ lastWrite' = Some(ForecastRecords(Head(t.batch)))
                      /\ UNCHANGED lostWrites
                 ELSE /\ lostWrites' = lostWrites + 1
                      /\ UNCHANGED <<wfStore, lastWrite>>
              /\ UNCHANGED predStore
    /\ UNCHANGED <<jobVars, pool, metricVars, uploadVars, now, lifeVars, pc, caller,
                   stateVars, refreshLocals, runVars, before, refreshLog, readVars>>

\* lifespan, lines 103-107: prediction_scheduler.stop() and then
\* db_manager.close().  The shutdown code is a task of the event loop, so it
\* runs after any run in progress has returned and after the tasks that run
\* created have had their first turn; pool.close() waits for the inserts
\* that hold a connection, not for the tasks.
lifespan_shutdown ==
    /\ phase = "serving"
    /\ pc = "idle"
    /\ \A i \in 1..Len(tasks) : tasks[i].started
    /\ phase' = "stopped"
    /\ isRunning' = stop(isRunning, scheduler).is_running
    /\ scheduler' = stop(isRunning, scheduler).scheduler
    /\ pool' = IF pool = "open" THEN "closed" ELSE pool
    /\ UNCHANGED <<jobVars, wfStore, predStore, lostWrites, lastWrite, metricVars, uploadVars,
                   now, dbReady, lastFire, pc, caller, stateVars, refreshLocals,
                   runVars, tasks, before, refreshLog, readVars>>

\* Any caller of the wrapper, one call at a time: start() with a job
\* registration that raises or not, stop(), get_status().  The calls and
\* their outcomes are kept, up to MaxCalls of them.
scheduler_call(Raises) ==
    /\ phase = "init"
    /\ Len(IF IsNone(apiResp) THEN <<>> ELSE Val(apiResp).calls) < MaxCalls
    /\ \E op \in {"start", "stop", "get_status"}, registration_raises \in Raises :
         LET after == IF op = "start" THEN start(isRunning, scheduler, registration_raises)
                      ELSE IF op = "stop" THEN stop(isRunning, scheduler)
                      ELSE [is_running |-> isRunning, scheduler |-> scheduler,
                            raised |-> FALSE]
             calls == IF IsNone(apiResp) THEN <<>> ELSE Val(apiResp).calls
         IN  /\ (op # "start") => ~registration_raises
             /\ isRunning' = after.is_running
             /\ scheduler' = after.scheduler
             /\ apiResp' = Some([endpoint |-> "scheduler",
                                 calls |-> Append(calls, [op |-> op,
                                                          raises |-> registration_raises,
                                                          raised |-> after.raised]),
                                 status |-> IF op = "get_status"
                                            THEN Some(scheduler_get_status(isRunning,
                                                                           scheduler))
                                            ELSE None])
    /\ UNCHANGED <<jobVars, dbVars, metricVars, upPc, upReq, upVal, upResp, upEvents,
                   now, phase, dbReady, lastFire, pc, caller, stateVars, refreshLocals,
                   runVars, tasks, before, refreshLog, readVars>>

\* The wall clock advances.  The clock is read by the scheduler (when the
\* loop is idle or about to start it) and by each weather fetch; time that
\* passes elsewhere is time that has passed at the next of these reads.  The
\* idle loop wakes up for a due run time before more time passes.
ClockReadPcs == {"idle", "ls_sched", "wf_fetch"}

Tick(limit) ==
    /\ pc \in ClockReadPcs
    /\ pc = "idle" => ~TriggerDue
    /\ now < StartClock + limit
    /\ now' = now + 1
    /\ overdue' = (overdue \/ (isRunning /\ pc # "idle" /\ NextFire(lastFire) = now + 1))
    /\ UNCHANGED <<instances, running, triggerLog, farVars, lifeVars, pc, caller, stateVars, refreshLocals, runVars, tasks,
                   before, refreshLog, readVars>>

\* A client sends GET /internal/status; the request waits for the loop.
status_request ==
    /\ phase = "serving"
    /\ statusReq = "none"
    /\ statusReq' = IF pc \in RefreshPcs THEN "during_refresh" ELSE "waiting"
    /\ UNCHANGED <<restVars, now, lifeVars, pc, caller, stateVars, refreshLocals, runVars,
                   tasks, before, refreshLog, obs>>

\* The endpoint declared `def`: it would run on a worker thread whatever the
\* event loop is doing.
get_status_on_worker_thread == TRUE

\* get_status is a coroutine of the event loop: it runs only when no
\* synchronous code holds the loop.
get_status_runnable == pc = "idle"

\* GET /internal/status, lines 135-138: the reads of the state cache.
get_status ==
    /\ statusReq # "none"
    /\ get_status_runnable
    /\ obs' = Some([view |-> [plants |-> get_active_power_plants,
                              models |-> [p \in PlantIds |->
                                            get_active_models_for_power_plant(p)]],
                    prior |-> before,
                    waited |-> statusReq = "during_refresh"])
    /\ statusReq' = "none"
    /\ UNCHANGED <<restVars, now, lifeVars, pc, caller, stateVars, refreshLocals, runVars,
                   tasks, before, refreshLog>>

\* ---------------------------------------------------------------------
\* The repositories under any batches
\* ---------------------------------------------------------------------

\* The variables of the lifespan, the scheduler and the synchronous code.
loopVars == <<jobVars, now, lifeVars, pc, caller, stateVars, refreshLocals, runVars,
              before, refreshLog, readVars>>
pipeVars == <<loopVars, dbVars, tasks>>

\* The application as lifespan leaves it when the database answered and the
\* Model-Manager listed no plant: the pool open, the scheduler waiting for
\* its first run time, no request handled yet.
Started ==
    /\ now = StartClock
    /\ phase = "serving"
    /\ dbReady = TRUE
    /\ isRunning = TRUE
    /\ scheduler = [state |-> "running", jobs |-> {"prediction_generation"}]
    /\ lastFire = StartClock
    /\ instances = 0
    /\ running = 0
    /\ overdue = FALSE
    /\ triggerLog = <<>>
    /\ pool = "open"
    /\ lostWrites = 0
    /\ lastWrite = None
    /\ pc = "idle"
    /\ caller = "lifespan"
    /\ activePlants = <<>>
    /\ activeModels = NoModels
    /\ plantsResp = <<>>
    /\ metaTodo = <<>>
    /\ plantsTodo = <<>>
    /\ weatherForecasts = <<>>
    /\ fIdx = 1
    /\ mIdx = 1
    /\ tasks = <<>>
    /\ before = None
    /\ refreshLog = NoLog
    /\ fetchLog = <<>>
    /\ attempts = <<>>
    /\ result = "none"
    /\ statusReq = "none"
    /\ obs = None

Serving == Started /\ NoRequests /\ wfStore = {} /\ predStore = {}

\* PowerPrediction objects of one model for the given target times, each
\* predicted at the given horizons, with any of the given values.
SomePredictions(Times, Horizons, Values) ==
    {[prediction_time |-> t, model_id |-> 1, created_at |-> t - h,
      predicted_power |-> v, horizon |-> h] :
        t \in Times, h \in Horizons, v \in Values}

\* WeatherForecast objects of one plant and one cycle, of one point with
\* either of two temperatures.
SomeForecasts ==
    {[power_plant_id |-> 1,
      forecast_data |-> <<[time |-> FirstCron * QuartersPerHour + 1,
                           temperature_2m |-> v]>>,
      fetch_time |-> FirstCron * QuartersPerHour] : v \in {10, 20}}

\* PredictionService hands a batch to a repository, which makes a task of it.
save_batch(PredictionSet, ForecastSet) ==
    /\ pc = "idle"
    /\ tasks = <<>>
    /\ \/ \E b \in SeqsUpTo(PredictionSet, MaxBatch) :
            tasks' = Append(tasks, save_power_predictions_batch(b))
       \/ \E b \in SeqsUpTo(ForecastSet, MaxBatch) :
            tasks' = Append(tasks, save_weather_forecasts_batch(b))
    /\ UNCHANGED <<loopVars, dbVars, metricVars, uploadVars>>

\* ---------------------------------------------------------------------
\* MetricsService
\* ---------------------------------------------------------------------


Abs(x) == IF x < 0 THEN -x ELSE x

RECURSIVE Gcd(_, _)
Gcd(a, b) == IF b = 0 THEN a ELSE Gcd(b, a % b)

RECURSIVE Sum(_)
Sum(s) == IF s = <<>> THEN 0 ELSE Head(s) + Sum(Tail(s))

\* A float, kept exact: the rational num/den in lowest terms or, with root,
\* its square root.
Number(num, den) ==
    LET g == Gcd(Abs(num), den)
    IN  [num |-> num \div g, den |-> den \div g, root |-> FALSE]

\* np.mean
Mean(s) == Number(Sum(s), Len(s))

\* np.sqrt of a non-negative number
Sqrt(x) ==
    IF \E a \in 0..x.num, b \in 1..x.den : a * a = x.num /\ b * b = x.den
    THEN LET a == CHOOSE k \in 0..x.num : k * k = x.num
             b == CHOOSE k \in 1..x.den : k * k = x.den
         IN  Number(a, b)
    ELSE [x EXCEPT !.root = TRUE]

Errors(predicted, actual) ==
    [i \in 1..Min(Len(predicted), Len(actual)) |-> predicted[i] - actual[i]]

\* The computation without the guard of line 259 and with MAE for any type.
_calculate_metric_unchecked(metric_type, predicted, actual) ==
    LET errors == Errors(predicted, actual)
    IN  IF errors = <<>> THEN Ok(Number(0, 1))
        ELSE Ok(Mean([i \in 1..Len(errors) |-> Abs(errors[i])]))

_calculate_metric(metric_type, predicted, actual) ==
    IF predicted = <<>> \/ actual = <<>> \/ Len(predicted) # Len(actual) THEN Raise
    ELSE LET errors == Errors(predicted, actual) IN
         IF metric_type = "MAE"
         THEN Ok(Mean([i \in 1..Len(errors) |-> Abs(errors[i])]))
         ELSE IF metric_type = "RMSE"
         THEN Ok(Sqrt(Mean([i \in 1..Len(errors) |-> errors[i] * errors[i]])))
         ELSE IF metric_type = "MBE"
         THEN Ok(Mean(errors))
         ELSE Raise

\* _horizon_values = [0.25, 1, 6, 24, 48, 72] hours, in quarter-hours
_horizon_values == <<1, 4, 24, 96, 192, 288>>

\* DatabaseManager.execute: the rows the query selects, or the exception of
\* a pool that cannot be acquired.
execute(rows) == IF Acquirable THEN Ok(rows) ELSE Raise

\* enum_range(NULL::horizon_metric_type), ORDER BY metric_type
get_horizon_metric_types == execute(<<"MAE", "MBE", "RMSE">>)

\* ORDER BY pp.prediction_time; the order of rows of one prediction_time is
\* the database's, and no metric depends on it.
RECURSIVE OrderByPredictionTime(_)
OrderByPredictionTime(rows) ==
    IF rows = {} THEN <<>>
    ELSE LET first == CHOOSE r \in rows :
                        \A q \in rows : r.prediction_time <= q.prediction_time
         IN  <<first>> \o OrderByPredictionTime(rows \ {first})

\* power_predictions INNER JOIN power_readings ON prediction_time =
\* timestamp AND plant_id = $2 WHERE model_id = $1 AND predicted_power IS
\* NOT NULL (power_w is declared float, never NULL); created_at tells the
\* rows of two cycles apart.
Paired(model_id, plant_id) ==
    {[prediction_time |-> x[1].prediction_time,
      created_at |-> x[1].created_at,
      predicted_power |-> Val(x[1].predicted_power),
      horizon |-> x[1].horizon,
      actual_power |-> x[2].power_w] :
        x \in {y \in predStore \X readingsStore :
                 /\ y[1].prediction_time = y[2].timestamp
                 /\ y[2].plant_id = plant_id
                 /\ y[1].model_id = model_id
                 /\ ~IsNone(y[1].predicted_power)}}

InHorizonValues(h) == \E k \in 1..Len(_horizon_values) : _horizon_values[k] = h

get_predictions_and_readings_for_model(model_id, plant_id) ==
    execute(OrderByPredictionTime({r \in Paired(model_id, plant_id) :
                                     InHorizonValues(r.horizon)}))

_group_data_by_horizon(data) ==
    [h \in {data[i].horizon : i \in 1..Len(data)} |->
        SelectSeq(data, LAMBDA row : row.horizon = h)]

HorizonMetricKey(r) == <<r.model_id, r.metric_type, r.horizon>>

\* The insert had it been DO UPDATE SET value = horizon_metrics.value +
\* EXCLUDED.value.
AccumulateHorizonMetric(table, row) ==
    {r \in table : HorizonMetricKey(r) # HorizonMetricKey(row)} \cup
    {[row EXCEPT !.value.num = @ + Sum([i \in 1..1 |-> r.value.num])] :
        r \in {q \in table : HorizonMetricKey(q) = HorizonMetricKey(row)}} \cup
    {r \in {row} : \A q \in table : HorizonMetricKey(q) # HorizonMetricKey(row)}

\* INSERT ... ON CONFLICT (model_id, metric_type, horizon) DO UPDATE SET
\* value = EXCLUDED.value
UpsertHorizonMetric(table, row) ==
    {r \in table : HorizonMetricKey(r) # HorizonMetricKey(row)} \cup {row}

RECURSIVE save_horizon_metrics(_, _)
save_horizon_metrics(table, metrics_data) ==
    IF metrics_data = <<>> THEN table
    ELSE save_horizon_metrics(UpsertHorizonMetric(table, Head(metrics_data)),
                              Tail(metrics_data))

\* Lines 155-176: for each horizon of _horizon_values that has data, one
\* entry per metric type.
MetricsToSave(model_id, metric_types, horizon_data) ==
    LET buckets == SelectSeq(_horizon_values, LAMBDA h : h \in DOMAIN horizon_data)
        n == Len(metric_types)
        predicted_values(h) ==
            [i \in 1..Len(horizon_data[h]) |-> horizon_data[h][i].predicted_power]
        actual_values(h) ==
            [i \in 1..Len(horizon_data[h]) |-> horizon_data[h][i].actual_power]
    IN  [k \in 1..(Len(buckets) * n) |->
            LET horizon == buckets[((k - 1) \div n) + 1]
                metric_type == metric_types[((k - 1) % n) + 1]
            IN  [model_id |-> model_id, metric_type |-> metric_type,
                 horizon |-> horizon,
                 value |-> _calculate_metric(metric_type, predicted_values(horizon),
                                             actual_values(horizon))]]

\* What calculate_horizon_metrics_by_model makes of the horizon_metrics
\* table, or the exception it re-raises.
calculate_horizon_metrics_by_model(table, model_id, plant_id) ==
    LET metric_types == get_horizon_metric_types
        data == get_predictions_and_readings_for_model(model_id, plant_id)
    IN  IF Raised(metric_types) \/ Raised(data) THEN Raise
        ELSE IF data.value = <<>> THEN Ok(table)
        ELSE LET metrics_to_save ==
                     MetricsToSave(model_id, metric_types.value,
                                   _group_data_by_horizon(data.value))
             IN  IF \E k \in 1..Len(metrics_to_save) : Raised(metrics_to_save[k].value)
                 THEN Raise
                 ELSE Ok(save_horizon_metrics(table,
                            [k \in 1..Len(metrics_to_save) |->
                                [metrics_to_save[k] EXCEPT
                                    !.value = metrics_to_save[k].value.value]]))

\* A caller awaits calculate_horizon_metrics_by_model for a model of plant 1.
horizon_metrics_run(ModelIds) ==
    /\ pc = "idle"
    /\ \E model_id \in ModelIds :
         LET outcome == calculate_horizon_metrics_by_model(hmStore, model_id, 1) IN
         /\ hmStore' = IF Raised(outcome) THEN hmStore ELSE outcome.value
         /\ calcLog' = Some([model_id |-> model_id,
                              raised |-> Raised(outcome),
                              repeat |-> /\ ~IsNone(calcLog)
                                         /\ Val(calcLog).model_id = model_id,
                              before |-> hmStore])
    /\ UNCHANGED <<pipeVars, uploadVars, readingsStore, cmStore, fnIn, fnOut>>

\* PowerReading objects and the table rows save_power_readings_batch makes
\* of them (lines 56-62).
ReadingKey(r) == <<r.timestamp, r.plant_id>>
ReadingRecords(readings, plant_id) ==
    [i \in 1..Len(readings) |->
        [timestamp |-> readings[i].timestamp, plant_id |-> plant_id,
         power_w |-> readings[i].power_w]]

\* INSERT ... ON CONFLICT (timestamp, plant_id) DO NOTHING
InsertReading(table, row) ==
    IF \E r \in table : ReadingKey(r) = ReadingKey(row) THEN table
    ELSE table \cup {row}

RECURSIVE ExecuteManyReadings(_, _)
ExecuteManyReadings(table, records) ==
    IF records = <<>> THEN table
    ELSE ExecuteManyReadings(InsertReading(table, Head(records)), Tail(records))

\* The power_readings table after save_power_readings_batch, or the
\* exception it re-raises; an empty batch returns 0 before the pool is used.
save_power_readings_batch(readings, plant_id) ==
    IF readings = <<>> THEN Ok(readingsStore)
    ELSE IF ~Acquirable THEN Raise
    ELSE Ok(ExecuteManyReadings(readingsStore, ReadingRecords(readings, plant_id)))

\* Readings of a plant are stored; the data the last run saw is gone.
readings_stored(Readings, PlantIds_) ==
    /\ pc = "idle"
    /\ \E reading \in Readings, plant_id \in PlantIds_ :
         LET outcome == save_power_readings_batch(<<reading>>, plant_id) IN
         /\ ~Raised(outcome)
         /\ outcome.value # readingsStore
         /\ readingsStore' = outcome.value
    /\ calcLog' = None
    /\ UNCHANGED <<pipeVars, uploadVars, hmStore, cmStore, fnIn, fnOut>>

\* model_data["id"]: fetch_models_for_power_plant returns Model objects,
\* pydantic models, which define no __getitem__: TypeError.  A dict answers.
GetItem(obj, key) == IF obj \in ModelCatalogue THEN Raise ELSE Ok(obj[key])

\* The loop of lines 208-214 over the models that remain; calls: the
\* models calculate_horizon_metrics_by_model has been awaited for.
RECURSIVE HorizonLoop(_, _, _, _)
HorizonLoop(table, plant_id, models_data, calls) ==
    IF models_data = <<>> THEN [raised |-> FALSE, table |-> table, calls |-> calls]
    ELSE LET model_id == GetItem(Head(models_data), "id") IN
         IF Raised(model_id) THEN [raised |-> TRUE, table |-> table, calls |-> calls]
         ELSE LET outcome == calculate_horizon_metrics_by_model(table, model_id.value,
                                                                plant_id)
              IN  IF Raised(outcome)
                  THEN [raised |-> TRUE, table |-> table,
                        calls |-> Append(calls, model_id.value)]
                  ELSE HorizonLoop(outcome.value, plant_id, Tail(models_data),
                                   Append(calls, model_id.value))

\* models_data: what fetch_models_for_power_plant answered, None or a list.
calculate_horizon_metrics_by_plant(table, plant_id, models_data) ==
    IF IsNone(models_data) \/ Val(models_data) = <<>>
    THEN [raised |-> FALSE, table |-> table, calls |-> <<>>]
    ELSE HorizonLoop(table, plant_id, Val(models_data), <<>>)

\* calculate_cycle_metrics(model_id): the join keyed on created_at, one
\* value per cycle and metric type over all the pairs of the cycle, upserted
\* under (time_of_forecast, model_id, metric_type).
calculate_cycle_metrics_by_model(table, model_id, plant_id) ==
    LET data == execute(OrderByPredictionTime(Paired(model_id, plant_id)))
        cycles == {r.created_at : r \in Paired(model_id, plant_id)}
        of(c) == SelectSeq(data.value, LAMBDA row : row.created_at = c)
        value(t, c) ==
            _calculate_metric(t, [i \in 1..Len(of(c)) |-> of(c)[i].predicted_power],
                                 [i \in 1..Len(of(c)) |-> of(c)[i].actual_power])
    IN  IF Raised(data) THEN Raise
        ELSE Ok({r \in table : r.model_id # model_id \/ r.time_of_forecast \notin cycles}
                \cup {[time_of_forecast |-> c, model_id |-> model_id,
                        metric_type |-> t, value |-> value(t, c).value] :
                         c \in cycles, t \in {"MAE", "MBE", "RMSE"}})

\* calculate_cycle_metrics_by_plant: for every model of the plant.
RECURSIVE calculate_cycle_metrics_by_plant(_, _, _, _)
calculate_cycle_metrics_by_plant(table, plant_id, models, calls) ==
    IF models = <<>> THEN [raised |-> FALSE, table |-> table, calls |-> calls]
    ELSE LET outcome == calculate_cycle_metrics_by_model(table, Head(models).id, plant_id)
         IN  IF Raised(outcome)
             THEN [raised |-> TRUE, table |-> table,
                   calls |-> Append(calls, Head(models).id)]
             ELSE calculate_cycle_metrics_by_plant(outcome.value, plant_id, Tail(models),
                                                   Append(calls, Head(models).id))

\* ---------------------------------------------------------------------
\* PowerReadingsService: the CSV upload
\* ---------------------------------------------------------------------

\* timestamp_str.replace("Z", "+00:00")
ReplaceZ(timestamp_str) ==
    CASE timestamp_str = "2024-01-01T07:00:00Z" -> "2024-01-01T07:00:00+00:00"
      [] timestamp_str = "2024-01-01T07:15:00Z" -> "2024-01-01T07:15:00+00:00"
      [] OTHER -> timestamp_str

\* datetime.fromisoformat, the instant as a time of the clock; ValueError
\* for anything else.
fromisoformat(date_string) ==
    CASE date_string = "2024-01-01T07:00:00+00:00" -> Ok(7 * QuartersPerHour)
      [] date_string = "2024-01-01T07:15:00+00:00" -> Ok(7 * QuartersPerHour + 1)
      [] date_string = "2024-01-01T08:00:00+01:00" -> Ok(7 * QuartersPerHour)
      [] OTHER -> Raise

\* float(power_str)
float(power_str) ==
    CASE power_str = "100" -> Ok(100)
      [] power_str = "1e2" -> Ok(100)
      [] power_str = "120.0" -> Ok(120)
      [] OTHER -> Raise

\* The loop of lines 108-141 from row row_number on; acc: errors, readings
\* and seen_timestamps so far.
RECURSIVE ParseRows(_, _, _)
ParseRows(rows, row_number, acc) ==
    IF row_number > Len(rows) THEN acc
    ELSE LET row == rows[row_number]
             error(kind) ==
                 [acc EXCEPT !.errors = Append(@, [row |-> row_number, kind |-> kind])]
             timestamp == fromisoformat(ReplaceZ(row[1]))
             power_w == float(row[2])
         IN  ParseRows(rows, row_number + 1,
               IF Len(row) # 2 THEN error("columns")
               ELSE IF Raised(timestamp) THEN error("timestamp")
               ELSE IF timestamp.value \in acc.seen_timestamps THEN error("duplicate")
               ELSE IF Raised(power_w)
                    THEN [error("power") EXCEPT
                            !.seen_timestamps = @ \cup {timestamp.value}]
               ELSE [acc EXCEPT
                       !.seen_timestamps = @ \cup {timestamp.value},
                       !.readings = Append(@, [timestamp |-> timestamp.value,
                                               power_w |-> power_w.value])])

\* The validation had it stopped at the first error.
_validate_until_first_error(file) ==
    LET acc == IF file.decodable
               THEN ParseRows(file.rows, 1,
                              [errors |-> <<>>, readings |-> <<>>, seen_timestamps |-> {}])
               ELSE [errors |-> <<[row |-> 0, kind |-> "encoding"]>>,
                     readings |-> <<>>, seen_timestamps |-> {}]
    IN  [is_valid |-> Len(acc.errors) = 0,
         errors |-> SubSeq(acc.errors, 1, Min(1, Len(acc.errors))),
         readings |-> acc.readings]

\* The CSVValidationResult; a file that does not decode as UTF-8 yields
\* the one error of line 143.
_validate_and_parse_csv(file) ==
    LET acc == IF file.decodable
               THEN ParseRows(file.rows, 1,
                              [errors |-> <<>>, readings |-> <<>>, seen_timestamps |-> {}])
               ELSE [errors |-> <<[row |-> 0, kind |-> "encoding"]>>,
                     readings |-> <<>>, seen_timestamps |-> {}]
    IN  [is_valid |-> Len(acc.errors) = 0, errors |-> acc.errors,
         readings |-> acc.readings]

CSVUploadResponse(success, message, validation_errors) ==
    [success |-> success, message |-> message, validation_errors |-> validation_errors]

\* The response had line 59 no try of its own: the exception reaches the
\* handler of line 71.
ResponseWithoutInnerTry(metrics_raised) ==
    IF metrics_raised THEN CSVUploadResponse(FALSE, "Failed to save CSV", None)
    ELSE CSVUploadResponse(TRUE, "Successfully uploaded", None)

\* Lines 58-69: the except of line 63 logs whatever the metric calculation
\* raised, and the response of line 66 follows either way.
ResponseAfterMetrics(metrics_raised) ==
    CSVUploadResponse(TRUE, "Successfully uploaded", None)

\* POST /reading/{plant_id}: upload_csv_readings up to its first await of
\* the database.
upload_csv_readings(Files, PlantIds_) ==
    /\ phase = "serving"
    /\ pc = "idle"
    /\ upPc = "idle"
    /\ \E file \in Files, plant_id \in PlantIds_ :
         LET validation_result == _validate_and_parse_csv(file) IN
         /\ upReq' = Some([file |-> file, plant_id |-> plant_id,
                           stored |-> readingsStore])
         /\ upVal' = Some(validation_result)
         /\ upEvents' = <<>>
         /\ IF ~validation_result.is_valid
            THEN /\ upResp' = Some(CSVUploadResponse(FALSE, "CSV validation failed",
                                                     Some(validation_result.errors)))
                 /\ upPc' = "idle"
            ELSE /\ upResp' = None
                 /\ upPc' = "save"
    /\ UNCHANGED <<pipeVars, metricVars, apiResp>>

\* Lines 54-56 and 71-76: the batch insert; Failures: whether the
\* executemany raises (a lost connection, a timeout).
upload_save(Failures) ==
    /\ pc = "idle"
    /\ upPc = "save"
    /\ \E fails \in Failures :
         LET readings == Val(upVal).readings
             outcome == IF fails /\ readings # <<>> THEN Raise
                        ELSE save_power_readings_batch(readings, Val(upReq).plant_id)
         IN  IF Raised(outcome)
             THEN /\ upResp' = Some(CSVUploadResponse(FALSE, "Failed to save CSV", None))
                  /\ upPc' = "idle"
                  /\ UNCHANGED <<readingsStore, upEvents>>
             ELSE /\ readingsStore' = outcome.value
                  /\ upEvents' = Append(upEvents, [op |-> "insert", model_id |-> 0])
                  /\ upPc' = "metrics"
                  /\ UNCHANGED upResp
    /\ UNCHANGED <<pipeVars, upReq, upVal, apiResp, hmStore, cmStore, calcLog, fnIn, fnOut>>

\* Lines 58-69 with _trigger_metrics_calculation: horizon metrics by plant,
\* then cycle metrics by plant, any exception logged; then the response.
\* Answers: what the Model-Manager may answer to each of the two fetches.
upload_metrics(Answers) ==
    /\ pc = "idle"
    /\ upPc = "metrics"
    /\ \E first \in Answers, second \in Answers :
         LET plant_id == Val(upReq).plant_id
             horizon == calculate_horizon_metrics_by_plant(hmStore, plant_id, first)
             cycle == IF IsNone(second) THEN [raised |-> FALSE, table |-> cmStore,
                                              calls |-> <<>>]
                      ELSE calculate_cycle_metrics_by_plant(cmStore, plant_id,
                                                            Val(second), <<>>)
             raised == horizon.raised \/ cycle.raised
             event(op, calls) == [k \in 1..Len(calls) |-> [op |-> op, model_id |-> calls[k]]]
             listed == IF IsNone(first) THEN <<>>
                       ELSE [k \in 1..Len(Val(first)) |-> Val(first)[k].id]
         IN  /\ hmStore' = horizon.table
             /\ cmStore' = IF horizon.raised THEN cmStore ELSE cycle.table
             /\ upEvents' = upEvents \o event("listed", listed)
                               \o event("horizon", horizon.calls)
                               \o (IF horizon.raised THEN <<>>
                                   ELSE event("cycle", cycle.calls))
                               \o (IF raised THEN <<[op |-> "logged", model_id |-> 0]>>
                                   ELSE <<>>)
             /\ upResp' = Some(ResponseAfterMetrics(raised))
    /\ upPc' = "idle"
    /\ UNCHANGED <<pipeVars, upReq, upVal, apiResp, readingsStore, calcLog, fnIn, fnOut>>

\* The values and metric type names the callers may hand over.
PowerValues == {90, 100, 110}
MetricTypeNames == {"MAE", "RMSE", "MBE", "MAPE"}
MetricInputs ==
    [metric_type : MetricTypeNames,
     predicted : SeqsUpTo(PowerValues, MaxPairs),
     actual : SeqsUpTo(PowerValues, MaxPairs)]

\* A caller hands its arguments to _calculate_metric (line 171).
metric_call ==
    /\ IsNone(fnIn)
    /\ \E in \in MetricInputs : fnIn' = Some(in)
    /\ fnOut' = None
    /\ UNCHANGED <<pipeVars, uploadVars, readingsStore, hmStore, cmStore, calcLog>>

\* _calculate_metric returns or raises.
metric_result ==
    /\ ~IsNone(fnIn)
    /\ IsNone(fnOut)
    /\ fnOut' = Some(_calculate_metric(Val(fnIn).metric_type, Val(fnIn).predicted,
                                       Val(fnIn).actual))
    /\ UNCHANGED <<pipeVars, uploadVars, readingsStore, hmStore, cmStore, calcLog, fnIn>>

\* ---------------------------------------------------------------------
\* float64: what np.mean computes
\* ---------------------------------------------------------------------

\* A magnitude is a fixed-point number in base Base, least significant
\* digit first, with FracDigits digits after the point and no zero digit at
\* the top; a float64 is a sign and a magnitude of at most Precision
\* significant bits.
Precision == 53
Base == 32768
FracDigits == 5

RECURSIVE NatBits(_)
NatBits(n) == IF n = 0 THEN <<>> ELSE <<n % Base>> \o NatBits(n \div Base)

ShiftLeft(mag, k) == IF mag = <<>> THEN <<>> ELSE [i \in 1..k |-> 0] \o mag

RECURSIVE Trim(_)
Trim(mag) ==
    IF mag = <<>> \/ mag[Len(mag)] # 0 THEN mag
    ELSE Trim(SubSeq(mag, 1, Len(mag) - 1))

RECURSIVE AddMag(_, _, _)
AddMag(a, b, carry) ==
    IF a = <<>> /\ b = <<>> THEN (IF carry = 0 THEN <<>> ELSE <<carry>>)
    ELSE LET x == IF a = <<>> THEN 0 ELSE Head(a)
             y == IF b = <<>> THEN 0 ELSE Head(b)
         IN  <<(x + y + carry) % Base>> \o
             AddMag(IF a = <<>> THEN a ELSE Tail(a), IF b = <<>> THEN b ELSE Tail(b),
                    (x + y + carry) \div Base)

\* a - b for a >= b
RECURSIVE SubMag(_, _, _)
SubMag(a, b, borrow) ==
    IF a = <<>> THEN <<>>
    ELSE LET y == IF b = <<>> THEN 0 ELSE Head(b)
             d == Head(a) - y - borrow
         IN  <<d % Base>> \o SubMag(Tail(a), IF b = <<>> THEN b ELSE Tail(b),
                                    IF d < 0 THEN 1 ELSE 0)

RECURSIVE LessMag(_, _)
LessMag(a, b) ==
    IF Len(a) # Len(b) THEN Len(a) < Len(b)
    ELSE IF a = <<>> THEN FALSE
    ELSE IF a[Len(a)] # b[Len(b)] THEN a[Len(a)] < b[Len(b)]
    ELSE LessMag(SubSeq(a, 1, Len(a) - 1), SubSeq(b, 1, Len(b) - 1))

\* Quotient and remainder of a magnitude by a natural below Base.
RECURSIVE DivMag(_, _)
DivMag(a, n) ==
    IF a = <<>> THEN [q |-> <<>>, r |-> 0]
    ELSE LET high == DivMag(Tail(a), n)
             cur == Base * high.r + Head(a)
         IN  [q |-> <<cur \div n>> \o high.q, r |-> cur % n]

\* The product of a magnitude and a natural of at most Base.
RECURSIVE MulMag(_, _, _)
MulMag(a, n, carry) ==
    IF a = <<>> THEN (IF carry = 0 THEN <<>> ELSE <<carry>>)
    ELSE <<(Head(a) * n + carry) % Base>> \o
         MulMag(Tail(a), n, (Head(a) * n + carry) \div Base)

\* The number of bits of a natural below Base, and of a magnitude.
BitLength(n) == IF n = 0 THEN 0 ELSE CHOOSE k \in 1..15 : 2^(k - 1) <= n /\ n < 2^k
BitLen(mag) == IF mag = <<>> THEN 0
               ELSE 15 * (Len(mag) - 1) + BitLength(mag[Len(mag)])

\* Round to nearest, ties to even, at Precision significant bits; sticky:
\* the exact value is above the magnitude.
RoundMag(mag, sticky) ==
    IF BitLen(mag) <= Precision THEN mag
    ELSE LET k == BitLen(mag) - Precision
             digits == IF k % 15 = 0 THEN (k \div 15) - 1 ELSE k \div 15
             bits == k - 15 * digits
             low == SubSeq(mag, 1, digits)
             d == DivMag(SubSeq(mag, digits + 1, Len(mag)), 2^bits)
             kept == Trim(d.q)
             below == \/ sticky
                      \/ d.r % 2^(bits - 1) # 0
                      \/ \E i \in 1..digits : low[i] # 0
             up == d.r \div 2^(bits - 1) = 1 /\ (below \/ kept[1] % 2 = 1)
         IN  ShiftLeft(MulMag(IF up THEN AddMag(kept, <<1>>, 0) ELSE kept, 2^bits, 0),
                       digits)

Float(neg, mag) == [neg |-> neg /\ mag # <<>>, mag |-> mag]

\* float(num / den) for naturals: the float64 nearest to the quotient.
Float64(num, den) ==
    LET d == DivMag(ShiftLeft(NatBits(num), FracDigits), den)
    IN  Float(FALSE, RoundMag(Trim(d.q), d.r # 0))

Negative(x) == Float(~x.neg, x.mag)

\* The sum of two float64, before any rounding.
ExactAdd(x, y) ==
    IF x.neg = y.neg THEN Float(x.neg, AddMag(x.mag, y.mag, 0))
    ELSE IF LessMag(x.mag, y.mag) THEN Float(y.neg, Trim(SubMag(y.mag, x.mag, 0)))
    ELSE Float(x.neg, Trim(SubMag(x.mag, y.mag, 0)))

\* x + y and x - y of float64
Add64(x, y) == LET e == ExactAdd(x, y) IN Float(e.neg, RoundMag(e.mag, FALSE))
Sub64(x, y) == Add64(x, Negative(y))

\* np.add.reduce of fewer than eight values: from left to right.
RECURSIVE Sum64(_)
Sum64(xs) ==
    IF xs = <<>> THEN Float(FALSE, <<>>)
    ELSE Add64(Sum64(SubSeq(xs, 1, Len(xs) - 1)), xs[Len(xs)])

\* The mean had the sign of the sum been lost.
MeanOfMagnitude64(xs) ==
    LET d == DivMag(Sum64(xs).mag, Len(xs))
    IN  Float(FALSE, RoundMag(Trim(d.q), d.r # 0))

\* np.mean: the sum divided by the count.
Mean64(xs) ==
    LET d == DivMag(Sum64(xs).mag, Len(xs))
    IN  Float(Sum64(xs).neg, RoundMag(Trim(d.q), d.r # 0))

\* Lines 263-273 on float64 values, for the two metrics that are means of
\* the errors themselves.
_calculate_metric_float64(metric_type, predicted, actual) ==
    LET errors == [i \in 1..Len(predicted) |-> Sub64(predicted[i], actual[i])]
    IN  IF metric_type = "MAE"
        THEN Mean64([i \in 1..Len(errors) |-> Float(FALSE, errors[i].mag)])
        ELSE Mean64(errors)

\* A caller hands float64 lists of one length to _calculate_metric.
float_call(Predicted, Actual, Lengths) ==
    /\ IsNone(fnIn)
    /\ \E n \in Lengths, metric_type \in {"MAE", "MBE"} :
         \E predicted \in [1..n -> Predicted], actual \in [1..n -> Actual] :
            fnIn' = Some([metric_type |-> metric_type, predicted |-> predicted,
                          actual |-> actual])
    /\ fnOut' = None
    /\ UNCHANGED <<pipeVars, uploadVars, readingsStore, hmStore, cmStore, calcLog>>

float_result ==
    /\ ~IsNone(fnIn)
    /\ IsNone(fnOut)
    /\ fnOut' = Some(_calculate_metric_float64(Val(fnIn).metric_type,
                                               Val(fnIn).predicted, Val(fnIn).actual))
    /\ UNCHANGED <<pipeVars, uploadVars, readingsStore, hmStore, cmStore, calcLog, fnIn>>

\* ---------------------------------------------------------------------
\* The POST endpoints of main.py that call into the services
\* ---------------------------------------------------------------------

\* Python's binding of a call's arguments to a method's parameters (self
\* left out), none of which has a default: TypeError for a positional
\* argument too many, a keyword that names no parameter or names one a
\* positional argument already fills, and a parameter left without argument.
Bind(parameters, positional, keywords) ==
    IF \/ positional > Len(parameters)
       \/ \E k \in keywords : \A i \in 1..Len(parameters) : parameters[i] # k
       \/ \E i \in 1..Len(parameters) :
             IF i <= positional THEN parameters[i] \in keywords
             ELSE parameters[i] \notin keywords
    THEN Raise ELSE Ok(TRUE)

\* def predict(self)
predict_parameters == <<>>

\* POST /generate, lines 120-130: predict(custom_start_time=start_date)
\* inside a try whose except answers with the failure message.
generate_predictions(StartDates) ==
    /\ phase = "serving"
    /\ pc = "idle"
    /\ \E start_date \in StartDates :
         IF Raised(Bind(predict_parameters, 0, {"custom_start_time"}))
         THEN /\ apiResp' = Some([endpoint |-> "generate", start_date |-> start_date,
                                  status |-> 200,
                                  message |-> "Failed to trigger prediction",
                                  run |-> result])
              /\ UNCHANGED <<pc, caller, running, runVars, obs>>
         ELSE /\ apiResp' = None
              /\ caller' = "predict"
              /\ pc' = "rp_clear"
              /\ running' = running + 1
              /\ result' = "running"
              /\ plantsTodo' = <<>>
              /\ weatherForecasts' = <<>>
              /\ fIdx' = 1
              /\ mIdx' = 1
              /\ fetchLog' = <<>>
              /\ attempts' = <<>>
              /\ obs' = None
    /\ UNCHANGED <<lastFire, overdue, triggerLog, instances, dbVars, metricVars,
                   upPc, upReq, upVal, upResp, upEvents, now, phase, dbReady,
                   isRunning, scheduler, stateVars, refreshLocals, tasks, before, refreshLog,
                   statusReq>>

\* async def calculate_horizon_metrics_by_model(self, model_id, plant_id)
calculate_horizon_metrics_by_model_parameters == <<"model_id", "plant_id">>

\* POST /metric/calculate/{model_id}, lines 393-425: the two recomputations,
\* each called with model_id alone, inside a try whose except answers 500.
\* Where the call binds, the plant is whichever one the second parameter
\* would stand for.
calculate_metrics(ModelIds) ==
    /\ phase = "serving"
    /\ pc = "idle"
    /\ \E model_id \in ModelIds, plant_id \in PlantIds :
         LET horizon ==
                 IF Raised(Bind(calculate_horizon_metrics_by_model_parameters, 1, {}))
                 THEN [step |-> "not called", table |-> hmStore]
                 ELSE LET outcome == calculate_horizon_metrics_by_model(hmStore, model_id,
                                                                        plant_id)
                      IN  IF Raised(outcome) THEN [step |-> "raised", table |-> hmStore]
                          ELSE [step |-> "done", table |-> outcome.value]
             cycle ==
                 IF horizon.step # "done" THEN [step |-> "not called", table |-> cmStore]
                 ELSE LET outcome == calculate_cycle_metrics_by_model(cmStore, model_id,
                                                                      plant_id)
                      IN  IF Raised(outcome) THEN [step |-> "raised", table |-> cmStore]
                          ELSE [step |-> "done", table |-> outcome.value]
         IN  /\ hmStore' = horizon.table
             /\ cmStore' = cycle.table
             /\ apiResp' = Some([endpoint |-> "calculate", model_id |-> model_id,
                                 status |-> IF cycle.step = "done" THEN 200 ELSE 500,
                                 horizon |-> horizon.step, cycle |-> cycle.step])
    /\ UNCHANGED <<pipeVars, upPc, upReq, upVal, upResp, upEvents, readingsStore,
                   calcLog, fnIn, fnOut>>

\* ---------------------------------------------------------------------
\* PlaygroundService: the metrics of an ad-hoc prediction
\* ---------------------------------------------------------------------

\* MetricsService.calculate_metric, the public entry the playground calls.
calculate_metric(metric_type, predicted, actual) ==
    _calculate_metric(metric_type, predicted, actual)

\* PowerReadingsRepository.get_power_readings: the readings of the plant
\* from start_date to end_date, both included.
get_power_readings(plant_id, start_date, end_date) ==
    execute({r \in readingsStore : /\ r.plant_id = plant_id
                                   /\ r.timestamp >= start_date
                                   /\ r.timestamp <= end_date})

SeqMin(s) == CHOOSE x \in {s[i] : i \in 1..Len(s)} : \A i \in 1..Len(s) : x <= s[i]
SeqMax(s) == CHOOSE x \in {s[i] : i \in 1..Len(s)} : \A i \in 1..Len(s) : x >= s[i]

\* The metrics of the types in order that did not raise.
RECURSIVE PlaygroundMetrics(_, _, _)
PlaygroundMetrics(metric_types, matched_predictions, matched_actuals) ==
    IF metric_types = <<>> THEN <<>>
    ELSE LET metric_value == calculate_metric(Head(metric_types), matched_predictions,
                                              matched_actuals)
             rest == PlaygroundMetrics(Tail(metric_types), matched_predictions,
                                       matched_actuals)
         IN  IF Raised(metric_value) THEN rest
             ELSE <<[metric_type |-> Head(metric_types),
                     value |-> metric_value.value]>> \o rest

_calculate_metrics_by_position(plant_id, timestamps, predictions) ==
    IF timestamps = <<>> \/ predictions = <<>> THEN <<>>
    ELSE LET power_readings ==
                 get_power_readings(plant_id, SeqMin(timestamps), SeqMax(timestamps))
         IN  IF Raised(power_readings) \/ power_readings.value = {} THEN <<>>
             ELSE LET ordered == OrderByPredictionTime(
                                     {[prediction_time |-> r.timestamp,
                                       power_w |-> r.power_w] : r \in power_readings.value})
                      n == Min(Len(ordered), Min(Len(timestamps), Len(predictions)))
                  IN  PlaygroundMetrics(<<"RMSE", "MAE", "MBE">>,
                                        [k \in 1..n |-> predictions[k]],
                                        [k \in 1..n |-> ordered[k].power_w])

\* Lines 307-367.
_calculate_metrics_for_predictions(plant_id, timestamps, predictions) ==
    IF timestamps = <<>> \/ predictions = <<>> THEN <<>>
    ELSE LET power_readings ==
                 get_power_readings(plant_id, SeqMin(timestamps), SeqMax(timestamps))
         IN  IF Raised(power_readings) \/ power_readings.value = {} THEN <<>>
             ELSE LET readings_map(t) ==
                          (CHOOSE r \in power_readings.value : r.timestamp = t).power_w
                      InMap(t) == \E r \in power_readings.value : r.timestamp = t
                      matched == SelectSeq([i \in 1..Len(timestamps) |-> i],
                                           LAMBDA i : /\ InMap(timestamps[i])
                                                      /\ i <= Len(predictions))
                      matched_predictions ==
                          [k \in 1..Len(matched) |-> predictions[matched[k]]]
                      matched_actuals ==
                          [k \in 1..Len(matched) |-> readings_map(timestamps[matched[k]])]
                  IN  IF matched = <<>> THEN <<>>
                      ELSE PlaygroundMetrics(<<"RMSE", "MAE", "MBE">>,
                                             matched_predictions, matched_actuals)

\* predict_from_csv from line 124 on, for a CSV that passed validation:
\* the model's predictions of its rows, then the metrics of the model's
\* plant.  Models: the metadata the Model-Manager may return; Timestamps:
\* those of the rows; Outputs: what the model may predict for a row.  One
\* request is followed per behaviour.
predict_from_csv(Models, Timestamps, Outputs) ==
    /\ phase = "serving"
    /\ pc = "idle"
    /\ IsNone(apiResp)
    /\ \E model_metadata \in Models :
         \E n \in 1..MaxRows :
           \E timestamps \in [1..n -> Timestamps],
              raw_predictions \in SeqsUpTo(Outputs, n) :
               apiResp' = Some([endpoint |-> "playground",
                                plant_id |-> model_metadata.plant_id,
                                timestamps |-> timestamps,
                                raw_predictions |-> raw_predictions,
                                stored |-> readingsStore,
                                metrics |-> _calculate_metrics_for_predictions(
                                                model_metadata.plant_id, timestamps,
                                                raw_predictions)])
    /\ UNCHANGED <<pipeVars, upPc, upReq, upVal, upResp, upEvents, metricVars>>

\* ---------------------------------------------------------------------
\* OpenMeteoConnector.fetch_weather_forecast, applied on its own
\* ---------------------------------------------------------------------

\* A caller hands a plant to the connector; Answers: what the provider may
\* answer when asked.
fetch_call(Plants, Answers) ==
    /\ IsNone(fnIn)
    /\ \E power_plant \in Plants, answer \in Answers :
         fnIn' = Some([power_plant |-> power_plant, answer |-> answer])
    /\ fnOut' = None
    /\ UNCHANGED <<pipeVars, uploadVars, readingsStore, hmStore, cmStore, calcLog>>

fetch_result ==
    /\ ~IsNone(fnIn)
    /\ IsNone(fnOut)
    /\ fnOut' = Some(fetch_weather_forecast(Val(fnIn).power_plant, Val(fnIn).answer, now))
    /\ UNCHANGED <<pipeVars, uploadVars, readingsStore, hmStore, cmStore, calcLog, fnIn>>

\* ---------------------------------------------------------------------
\* DataPreparationService.prepare_data, applied on its own
\* ---------------------------------------------------------------------

MaxFeatures == 2

prepare_call(Points, Features, Capacities) ==
    /\ IsNone(fnIn)
    /\ \E forecast_data \in SeqsUpTo(Points, MaxPoints),
          model_features \in SeqsUpTo(Features, MaxFeatures),
          power_plant_capacity \in Capacities :
            fnIn' = Some([weather_forecast |-> [power_plant_id |-> 1,
                                               forecast_data |-> forecast_data],
                          model_features |-> model_features,
                          power_plant_capacity |-> power_plant_capacity])
    /\ fnOut' = None
    /\ UNCHANGED <<pipeVars, uploadVars, readingsStore, hmStore, cmStore, calcLog>>

prepare_result ==
    /\ ~IsNone(fnIn)
    /\ IsNone(fnOut)
    /\ fnOut' = Some(prepare_data(Val(fnIn).weather_forecast, Val(fnIn).model_features,
                                  Val(fnIn).power_plant_capacity))
    /\ UNCHANGED <<pipeVars, uploadVars, readingsStore, hmStore, cmStore, calcLog, fnIn>>

\* ---------------------------------------------------------------------
\* Specifications
\* ---------------------------------------------------------------------

ManagerAnswers(Lists) == {None} \cup {Some(l) : l \in Lists}

\* The steps of the lifespan, the scheduler and the pipeline.  E names what
\* the collaborators may answer: the Model-Manager to each caller of
\* refresh_state, the weather provider, the models' predict, and how far the
\* clock runs.
Pipeline(E) ==
    \/ lifespan_startup
    \/ refresh_plants_clear
    \/ refresh_plants_fetch(E.plants[caller])
    \/ refresh_plants_store
    \/ refresh_models_clear
    \/ refresh_models_fetch(E.models[caller])
    \/ refresh_models_load
    \/ scheduler_start
    \/ execute_predictions
    \/ predict_list_plants
    \/ fetch_next_plant(E.weather)
    \/ save_weather_forecasts
    \/ create_predictions_for_model(E.outputs)
    \/ predict_return
    \/ start_task
    \/ run_task
    \/ Tick(E.ticks)

Step(E) ==
    \/ Pipeline(E)
    \/ status_request
    \/ get_status

Plant(i, lat) == CHOOSE p \in PlantCatalogue : p.id = i /\ IsNone(p.latitude) = ~lat
Model(i) == CHOOSE m \in ModelCatalogue : m.id = i

\* A provider whose samples all parse, and a model that returns one value
\* per forecast point of a full response.
AllParse == {a \in WeatherAnswers : a.tag = "data" => \A i \in 1..Len(a.parses) : a.parses[i]}
FullResponse == [tag |-> "data", parses |-> [i \in 1..MaxPoints |-> TRUE]]

\* The state cache under every answer of the Model-Manager to the pipeline's
\* refresh, after a startup that loaded two plants and two models; one
\* provider answer, one model behaviour.
StateEnv ==
    [plants |-> [c \in {"lifespan", "predict"} |->
                   IF c = "lifespan"
                   THEN {None, Some(<<Plant(1, TRUE), Plant(2, TRUE)>>)}
                   ELSE ManagerAnswers(PlantLists)],
     models |-> [c \in {"lifespan", "predict"} |->
                   IF c = "lifespan"
                   THEN {None, Some(<<Model(1), Model(6)>>)}
                   ELSE ManagerAnswers(ModelLists)],
     weather |-> {FullResponse},
     outputs |-> {Ok(MaxPoints - 1)},
     ticks |-> 1]

Next == Step(StateEnv)
Spec == Init /\ [][Next]_vars

\* The pipeline under every plant list, the lists of the models that load,
\* every model behaviour and a provider that fails or answers samples that
\* all parse; the clock runs into the next hour.
LoadableModels == {m \in ModelCatalogue : LoadOutcome(m).tag = "model"}
PipelineEnv ==
    [plants |-> [c \in {"lifespan", "predict"} |->
                   IF c = "lifespan" THEN {None}
                   ELSE ManagerAnswers(PlantLists)],
     models |-> [c \in {"lifespan", "predict"} |->
                   IF c = "lifespan" THEN {None}
                   ELSE ManagerAnswers(ListsOver(LoadableModels, MaxModels))],
     weather |-> AllParse,
     outputs |-> PredictAnswers,
     ticks |-> MaxTicks]

NextPipeline == Pipeline(PipelineEnv)
SpecPipeline == Init /\ [][NextPipeline]_vars

\* The weather client under every provider answer, for one plant and one
\* model.
WeatherEnv ==
    [plants |-> [c \in {"lifespan", "predict"} |->
                   {Some(<<Plant(1, TRUE)>>), Some(<<Plant(1, TRUE), Plant(2, TRUE)>>)}],
     models |-> [c \in {"lifespan", "predict"} |-> {Some(<<Model(1)>>)}],
     weather |-> WeatherAnswers,
     outputs |-> {Ok(MaxPoints - 1)},
     ticks |-> 1]

NextWeather == Pipeline(WeatherEnv)
SpecWeather == Init /\ [][NextWeather]_vars

\* The service from startup to shutdown, with two plants of one forecast
\* each and one model, a pool that opens or not, and a clock that runs past
\* the job's second run time.
LifeEnv ==
    [plants |-> [c \in {"lifespan", "predict"} |->
                   {Some(<<Plant(1, TRUE), Plant(2, TRUE)>>)}],
     models |-> [c \in {"lifespan", "predict"} |-> {Some(<<Model(1)>>)}],
     weather |-> {FullResponse},
     outputs |-> {Ok(MaxPoints - 1)},
     ticks |-> NextFire(FirstCron * QuartersPerHour) - StartClock + MaxTicks]

NextLife == Step(LifeEnv) \/ lifespan_shutdown
SpecLife == Init /\ [][NextLife]_vars

\* The two fire-and-forget repositories under batches whose rows share keys.
NextStore ==
    \/ save_batch(SomePredictions({FirstCron * QuartersPerHour + 4}, {1, 4},
                                  {Some(90), Some(110)}),
                  SomeForecasts)
    \/ start_task
    \/ run_task
SpecStore == Serving /\ [][NextStore]_vars

\* The horizon metrics of two models of plant 1 while readings arrive, from
\* any table of predictions the repository can have written.
TargetTimes == {FirstCron * QuartersPerHour + 4, FirstCron * QuartersPerHour + 5}
PredictionTables ==
    {T \in SUBSET (SomePredictions(TargetTimes, {1}, {Some(90), Some(110)})
                   \cup SomePredictions({FirstCron * QuartersPerHour + 4}, {2, 4},
                                        {Some(90)})
                   \cup SomePredictions({FirstCron * QuartersPerHour + 5}, {4}, {None})) :
        \A r, q \in T : PredictionKey(r) = PredictionKey(q) => r = q}
SomeReadings == [timestamp : TargetTimes, power_w : {100, 120}]

InitMetrics ==
    /\ Started
    /\ NoRequests
    /\ wfStore = {}
    /\ predStore \in PredictionTables

NextMetrics ==
    \/ horizon_metrics_run({1, 2})
    \/ readings_stored(SomeReadings, {1, 2})
SpecMetrics == InitMetrics /\ [][NextMetrics]_vars

\* The CSV upload of plant 1 under every file of a few rows, a database
\* that may fail the insert, and every answer of the Model-Manager.
CsvRows ==
    {<<"2024-01-01T07:00:00Z", "100">>, <<"2024-01-01T08:00:00+01:00", "1e2">>,
     <<"2024-01-01T07:15:00Z", "120.0">>, <<"2024-01-01T07:15:00Z", "abc">>,
     <<"timestamp", "100">>, <<>>, <<"2024-01-01T07:15:00Z", "120.0", "">>}
CsvFiles ==
    {[decodable |-> FALSE, rows |-> <<>>]} \cup
    {[decodable |-> TRUE, rows |-> r] : r \in SeqsUpTo(CsvRows, MaxRows)}

NextIngest ==
    \/ upload_csv_readings(CsvFiles, {1})
    \/ upload_save(BOOLEAN)
    \/ upload_metrics(ManagerAnswers(ListsOver({Model(1), Model(2)}, MaxModels)))
InitIngest ==
    /\ Started
    /\ NoRequests
    /\ wfStore = {}
    /\ predStore = SomePredictions(TargetTimes, {1}, {Some(90)})
SpecIngest == InitIngest /\ [][NextIngest]_vars

\* _calculate_metric under every metric type name and every pair of value
\* lists.
NextCalc == metric_call \/ metric_result
SpecCalc == Init /\ [][NextCalc]_vars

\* MAE and MBE in float64 over lists of watts and of tenths.
NextFloat ==
    \/ float_call({Float64(1, 10), Float64(90, 1), Float64(100, 1), Float64(110, 1)},
                  {Float64(0, 1), Float64(100, 1)}, 1..(MaxPairs + 1))
    \/ float_result
SpecFloat == Init /\ [][NextFloat]_vars

\* prepare_data under every forecast of a few points, with and without a
\* temperature, and every short list of feature names: supported ones, one
\* whose value is no number, and one no calculator is registered for.
SomePoints ==
    {[time |-> FirstCron * QuartersPerHour, temperature_2m |-> None],
     [time |-> FirstCron * QuartersPerHour, temperature_2m |-> Some(5)],
     [time |-> (FirstCron + 1) * QuartersPerHour, temperature_2m |-> Some(7)]}
SomeFeatures == {"temperature_2m", "hour", "capacity", "datetime", "made_up_feature"}
NextPrepare ==
    \/ prepare_call(SomePoints, SomeFeatures, {None, Some(500)})
    \/ prepare_result
SpecPrepare == Init /\ [][NextPrepare]_vars

\* The service with one or two plants and one model, its hourly job, and
\* requests to POST /generate for the cycle that began and for the one before.
GenerateEnv ==
    [plants |-> [c \in {"lifespan", "predict"} |->
                   {Some(<<Plant(1, TRUE)>>), Some(<<Plant(1, TRUE), Plant(2, TRUE)>>)}],
     models |-> [c \in {"lifespan", "predict"} |-> {Some(<<Model(1)>>)}],
     weather |-> {FullResponse},
     outputs |-> {Ok(MaxPoints - 1)},
     ticks |-> 1]
NextGenerate ==
    \/ Pipeline(GenerateEnv)
    \/ generate_predictions({(FirstCron - 1) * QuartersPerHour,
                             FirstCron * QuartersPerHour})
SpecGenerate == Init /\ [][NextGenerate]_vars

\* POST /metric/calculate for two models while readings arrive, from any
\* table of predictions the repository can have written.
NextRecalculate ==
    \/ calculate_metrics({1, 2})
    \/ readings_stored(SomeReadings, {1, 2})
SpecRecalculate == InitMetrics /\ [][NextRecalculate]_vars

\* Playground predictions of a model of either plant over rows of stored
\* and of unknown timestamps, while readings arrive.
NextPlayground ==
    \/ predict_from_csv({Model(1), Model(6)},
                        TargetTimes \cup {FirstCron * QuartersPerHour + 6}, {90, 110})
    \/ readings_stored([timestamp : TargetTimes, power_w : {100}], {1, 2})
InitPlayground ==
    /\ Started
    /\ NoRequests
    /\ wfStore = {}
    /\ predStore = {}
SpecPlayground == InitPlayground /\ [][NextPlayground]_vars

\* The scheduler wrapper under every sequence of a few calls.
NextScheduler == scheduler_call(BOOLEAN)
SpecScheduler == Init /\ [][NextScheduler]_vars

\* The connector under plants whose coordinates are null, zero or neither,
\* and every answer of the provider.
SomePlants ==
    [id : {1}, latitude : {None, Some(0), Some(45)},
     longitude : {None, Some(0), Some(16)}, capacity : {Some(1000)}]
NextFetch ==
    \/ fetch_call(SomePlants, WeatherAnswers)
    \/ fetch_result
SpecFetch == Init /\ [][NextFetch]_vars

\* ---------------------------------------------------------------------
\* Properties
\* ---------------------------------------------------------------------

Finished == result \in {"returned", "raised"}
InferenceFailed(a) == a.stage \in {"prepare_failed", "predict_failed"}
ForecastOf(plant_id) ==
    weatherForecasts[CHOOSE k \in 1..Len(weatherForecasts) :
                        weatherForecasts[k].power_plant_id = plant_id]
AttemptIx(plant_id) == {j \in 1..Len(attempts) : attempts[j].plant_id = plant_id}

RECURSIVE RowCount(_)
RowCount(S) ==
    IF S = {} THEN 0
    ELSE LET j == CHOOSE x \in S : TRUE
         IN  Len(attempts[j].rows) + RowCount(S \ {j})

\* C1: once a run has ended, if feature preparation or inference failed for
\* a model, the run returned normally and every other model of the same
\* plant was attempted and, unless its own preparation or inference failed,
\* had its min(M, N) prediction rows built and saved.
C1_SiblingsStillPredict ==
    Finished =>
      \A i \in 1..Len(attempts) :
        InferenceFailed(attempts[i]) =>
          /\ result = "returned"
          /\ LET pid == attempts[i].plant_id
                 models == get_active_models_for_power_plant(pid)
             IN  \A k \in 1..Len(models) :
                   models[k].metadata.id # attempts[i].model_id =>
                     \E j \in AttemptIx(pid) :
                       /\ attempts[j].model_id = models[k].metadata.id
                       /\ ~InferenceFailed(attempts[j]) =>
                            /\ attempts[j].stage = "saved"
                            /\ Len(attempts[j].rows) = Min(attempts[j].m, attempts[j].n)

\* C2: once a run has ended, if some plant's weather fetch yielded no
\* forecast, predict() returned normally, every active plant was fetched, and
\* every plant whose fetch succeeded has its forecast in the saved batch and
\* each of its models attempted.
C2_PlantSkippedRunContinues ==
    (Finished /\ \E i \in 1..Len(fetchLog) : IsNone(fetchLog[i].raw)) =>
      /\ result = "returned"
      /\ Len(fetchLog) = Len(activePlants)
      /\ \A i \in 1..Len(fetchLog) :
           ~IsNone(fetchLog[i].raw) =>
             /\ \E k \in 1..Len(weatherForecasts) :
                  weatherForecasts[k].power_plant_id = fetchLog[i].plant_id
             /\ Cardinality(AttemptIx(fetchLog[i].plant_id)) =
                  Len(get_active_models_for_power_plant(fetchLog[i].plant_id))

\* C3: for every model whose inference returned, the pipeline hands to
\* persistence the rows of its matched points, and each of them carries
\* horizon = prediction_time - created_at (in quarter-hours, i.e. 4 x hours).
C3_RowsCarryHorizon ==
    \A j \in 1..Len(attempts) :
      attempts[j].stage \in {"map_failed", "saved"} =>
        /\ attempts[j].stage = "saved"
        /\ Len(attempts[j].rows) = Min(attempts[j].m, attempts[j].n)
        /\ \A i \in 1..Len(attempts[j].rows) :
             attempts[j].rows[i].horizon =
               attempts[j].rows[i].prediction_time - attempts[j].rows[i].created_at

\* C4: after a run that returned, a plant whose provider response had F >= 1
\* points and whose K active models each returned one value per forecast
\* point has exactly K * (F - 1) prediction rows saved.
C4_RowsPerPlant ==
    result = "returned" =>
      \A f \in 1..Len(weatherForecasts) :
        LET pid == weatherForecasts[f].power_plant_id
            F == Len(Val(fetchLog[f].raw))
            K == Len(get_active_models_for_power_plant(pid))
        IN  (/\ F >= 1
             /\ Cardinality(AttemptIx(pid)) = K
             /\ \A j \in AttemptIx(pid) : attempts[j].m = attempts[j].n) =>
              RowCount(AttemptIx(pid)) = K * (F - 1)

\* C5: the forecasts handed to persistence by one run that have rows, and
\* all prediction rows built in the run, carry one and the same created_at.
C5_OneCycle ==
    /\ \A t \in 1..Len(tasks) :
         tasks[t].kind = "forecasts" =>
           \A f, g \in 1..Len(tasks[t].batch) :
             (tasks[t].batch[f].forecast_data # <<>> /\ tasks[t].batch[g].forecast_data # <<>>)
               => tasks[t].batch[f].fetch_time = tasks[t].batch[g].fetch_time
    /\ \A j \in 1..Len(attempts) : \A i \in 1..Len(attempts[j].rows) :
         attempts[j].rows[i].created_at = weatherForecasts[1].fetch_time

\* C6: of a non-empty raw response the sample dropped is the first raw one:
\* the retained points are the parseable samples after it, none is at the
\* cycle time, and when the second raw sample parses it is the first retained.
C6_FirstRawSampleDropped ==
    \A f \in 1..Len(weatherForecasts) :
      LET raw == Val(fetchLog[f].raw)
          points == weatherForecasts[f].forecast_data
      IN  raw # <<>> =>
            /\ points = ParsedPoints(Tail(raw))
            /\ \A k \in 1..Len(points) : points[k].time # weatherForecasts[f].fetch_time
            /\ (Len(raw) >= 2 /\ raw[2].ok) =>
                 (points # <<>> /\ points[1].time = raw[2].time)

\* C7: mapping an output of length M onto a forecast of N points gives
\* min(M, N) rows, row i pairing predictions[i] with points[i].time.
C7_PositionalMapping ==
    \A j \in 1..Len(attempts) :
      attempts[j].stage \in {"map_failed", "saved"} =>
        LET points == ForecastOf(attempts[j].plant_id).forecast_data
            rows == attempts[j].rows
        IN  /\ attempts[j].stage = "saved"
            /\ Len(rows) = Min(attempts[j].m, attempts[j].n)
            /\ \A i \in 1..Len(rows) :
                 /\ rows[i].prediction_time = points[i].time
                 /\ rows[i].predicted_power = Some(PredValue(i))

\* C8: what GET /internal/status read is, once no refresh is in progress,
\* either the complete maps the refresh ended with or the complete maps it
\* began with; never the cleared or half-filled maps in between.
C8_NoTornView ==
    (~IsNone(obs) /\ pc \notin RefreshPcs) =>
      \/ Val(obs).view = View
      \/ ~IsNone(Val(obs).prior) /\ Val(obs).view = Val(Val(obs).prior)

\* A status request that arrived while a refresh held the loop was answered
\* after it, from the maps the refresh had filled.
C8_Witness ==
    /\ ~IsNone(obs)
    /\ Val(obs).waited
    /\ Len(Val(obs).view.plants) = MaxPlants
    /\ \E p \in PlantIds : Val(obs).view.models[p] # <<>>

RefreshDone == pc \in {"ls_sched", "pr_plants"}
Loadable(md) == md.artifact = "ok" /\ md.file_type = SupportedFileType

RECURSIVE LoadedFor(_, _)
LoadedFor(metas, plant_id) ==
    IF metas = <<>> THEN <<>>
    ELSE (IF Head(metas).plant_id = plant_id /\ Loadable(Head(metas))
          THEN <<Head(metas).id>> ELSE <<>>) \o LoadedFor(Tail(metas), plant_id)

\* C9: when a refresh ends that fetched a metadata list, models[plant_id]
\* holds, in list order, every model of the list whose artifact downloads and
\* decodes, whatever fails before it in the list.
C9_OthersStillLoaded ==
    (RefreshDone /\ ~IsNone(refreshLog.models) /\ ~IsNone(Val(refreshLog.models))) =>
      \A p \in PlantIds :
        [k \in 1..Len(activeModels[p]) |-> activeModels[p][k].metadata.id]
          = LoadedFor(Val(Val(refreshLog.models)), p)

\* C10: once _refresh_power_plant_state has ended, the plant map holds the
\* fetched list if a list was fetched, and what it held before the refresh
\* if the fetch returned null.
C10_PlantMapReplacedOrKept ==
    (~IsNone(refreshLog.plants) /\ pc # "rp_store") =>
      IF IsNone(Val(refreshLog.plants))
      THEN activePlants = Val(before).plants
      ELSE activePlants = Val(Val(refreshLog.plants))

\* C11: when a refresh ends whose active-model metadata fetch failed,
\* get_active_models_for_power_plant still returns, for every plant, the
\* models that were loaded when the refresh began.
C11_ModelsKeptOnFailedFetch ==
    (RefreshDone /\ refreshLog.models = Some(None)) =>
      \A p \in PlantIds :
        get_active_models_for_power_plant(p) = Val(before).models[p]

C13_PoolClosedAfterTasks ==
    /\ lostWrites = 0
    /\ pool = "closed" => (~isRunning /\ running = 0 /\ tasks = <<>>)

\* C14: once the pool has failed to initialize, the service is not serving
\* and answers no request, refresh_state has not been called and the
\* scheduler is not running.
C14_StartupAborts ==
    (phase # "init" /\ ~dbReady) =>
      /\ phase # "serving"
      /\ statusReq = "none" /\ IsNone(obs)
      /\ activePlants = <<>> /\ IsNone(before) /\ refreshLog = NoLog
      /\ ~isRunning

UniqueKeys(table, Key(_)) == \A r, q \in table : Key(r) = Key(q) => r = q

\* C18: whatever batches are written, power_predictions holds at most one
\* row per (prediction_time, model_id, created_at), weather_forecasts at
\* most one per (forecast_time, plant_id, created_at), and no write changes
\* or removes a row that is stored.
C18_FirstWriteWins ==
    [][/\ predStore \subseteq predStore'
       /\ wfStore \subseteq wfStore'
       /\ UniqueKeys(predStore', PredictionKey)
       /\ UniqueKeys(wfStore', ForecastKey)]_vars

\* An executemany has run with a prediction record whose key was stored
\* with another value, while forecasts are stored too.
C18_Witness ==
    /\ ~IsNone(lastWrite)
    /\ \E i \in 1..Len(Val(lastWrite)) :
         LET rec == Val(lastWrite)[i] IN
         /\ "model_id" \in DOMAIN rec
         /\ \E r \in predStore : PredictionKey(r) = PredictionKey(rec) /\ r # rec
    /\ wfStore # {}

SupportedMetricTypes == {"MAE", "RMSE", "MBE"}

\* The horizon buckets a model of plant 1 has paired data for.
PairedBuckets(model_id) ==
    {h \in {1, 4, 24, 96, 192, 288} :
        \E r \in Paired(model_id, 1) : r.horizon = h}

\* C19: when calculate_horizon_metrics_by_model runs again for a model
\* while predictions and readings are as the run before saw them, the
\* horizon_metrics table is left as it was, and its rows of the model are
\* exactly one per metric type and horizon bucket with paired data.
C19_HorizonMetricsIdempotent ==
    (~IsNone(calcLog) /\ Val(calcLog).repeat) =>
      LET m == Val(calcLog).model_id
          rows == {r \in hmStore : r.model_id = m}
      IN  /\ ~Val(calcLog).raised
          /\ hmStore = Val(calcLog).before
          /\ \A r, q \in rows : HorizonMetricKey(r) = HorizonMetricKey(q) => r = q
          /\ {<<r.metric_type, r.horizon>> : r \in rows}
               = SupportedMetricTypes \X PairedBuckets(m)

\* A second run over two pairs in the 0.25 h bucket with a bias that is not
\* zero, readings of another plant being stored too.
C19_Witness ==
    /\ ~IsNone(calcLog)
    /\ Val(calcLog).repeat
    /\ Cardinality({r \in Paired(1, 1) : r.horizon = 1}) = 2
    /\ \E r \in hmStore : r.metric_type = "MBE" /\ r.horizon = 1 /\ r.value.num # 0
    /\ \E r \in readingsStore : r.plant_id = 2

\* C20: _calculate_metric raises, and returns no value, exactly when the
\* predicted and actual lists differ in length, or one is empty, or the
\* metric type is none of MAE, RMSE, MBE; otherwise it returns a number.
C20_MetricRaisesOrReturns ==
    ~IsNone(fnOut) =>
      LET in == Val(fnIn)
          out == Val(fnOut)
          bad == \/ Len(in.predicted) # Len(in.actual)
                 \/ Len(in.predicted) = 0
                 \/ Len(in.actual) = 0
                 \/ in.metric_type \notin SupportedMetricTypes
      IN  /\ bad => Raised(out)
          /\ ~bad => (~Raised(out) /\ out.value.den > 0)

\* Lists of different non-zero lengths with a supported type raised.
C20_Witness ==
    /\ ~IsNone(fnOut)
    /\ Raised(Val(fnOut))
    /\ Val(fnIn).metric_type = "RMSE"
    /\ Len(Val(fnIn).predicted) = 2
    /\ Len(Val(fnIn).actual) = 1

\* Row i of the file is one a CSV of readings may not contain: not two
\* columns, a timestamp that does not parse or that an earlier row has, or
\* a power that is no number.
InvalidRow(rows, i) ==
    \/ Len(rows[i]) # 2
    \/ /\ Len(rows[i]) = 2
       /\ \/ Raised(fromisoformat(ReplaceZ(rows[i][1])))
          \/ Raised(float(rows[i][2]))
          \/ \E j \in 1..(i - 1) :
                /\ Len(rows[j]) = 2
                /\ fromisoformat(ReplaceZ(rows[j][1])) = fromisoformat(ReplaceZ(rows[i][1]))

\* C15: an upload whose file has an invalid row is answered success=false
\* with an error entry for every invalid row, and the power_readings table
\* is as it was when the upload arrived.
C15_InvalidUploadRejected ==
    (~IsNone(upReq) /\ \E i \in 1..Len(Val(upReq).file.rows) :
                          InvalidRow(Val(upReq).file.rows, i)) =>
      /\ upPc = "idle"
      /\ ~IsNone(upResp)
      /\ ~Val(upResp).success
      /\ readingsStore = Val(upReq).stored
      /\ \A i \in 1..Len(Val(upReq).file.rows) :
           InvalidRow(Val(upReq).file.rows, i) =>
             \E k \in 1..Len(Val(Val(upResp).validation_errors)) :
                Val(Val(upResp).validation_errors)[k].row = i

\* A file of two invalid rows, a non-numeric power and then a duplicate of
\* that row's timestamp, rejected with two errors while readings of an
\* earlier upload are stored.
C15_Witness ==
    /\ ~IsNone(upReq)
    /\ ~IsNone(upResp)
    /\ ~Val(upResp).success
    /\ readingsStore # {}
    /\ Len(Val(upReq).file.rows) = 2
    /\ Val(upReq).file.rows[1] = <<"2024-01-01T07:15:00Z", "abc">>
    /\ Val(upReq).file.rows[2] = <<"2024-01-01T07:15:00Z", "120.0">>
    /\ Len(Val(Val(upResp).validation_errors)) = 2

Did(op, model_id, from) ==
    \E k \in from..Len(upEvents) : upEvents[k] = [op |-> op, model_id |-> model_id]

\* C16: when a valid upload has been answered success, the insert came
\* first and then the horizon metrics and the cycle metrics of every model
\* the Model-Manager listed for the plant were recomputed.
C16_MetricsRecomputedAfterInsert ==
    (upPc = "idle" /\ ~IsNone(upResp) /\ Val(upResp).success) =>
      /\ upEvents # <<>>
      /\ upEvents[1].op = "insert"
      /\ \A k \in 1..Len(upEvents) :
           upEvents[k].op = "listed" =>
             /\ Did("horizon", upEvents[k].model_id, k + 1)
             /\ Did("cycle", upEvents[k].model_id, k + 1)

\* C17: when the file was valid, the insert succeeded and the metric
\* recomputation then failed, the failure is logged, the answer is
\* success=true and every reading of the file is stored for the plant.
C17_MetricFailureOnlyLogged ==
    (upPc = "idle" /\ ~IsNone(upVal) /\ Val(upVal).is_valid
        /\ Did("insert", 0, 1) /\ Did("listed", 1, 1) /\ ~Did("cycle", 1, 1)) =>
      /\ Did("logged", 0, 1)
      /\ ~IsNone(upResp)
      /\ Val(upResp).success
      /\ \A i \in 1..Len(Val(upVal).readings) :
           \E r \in readingsStore :
              /\ r.plant_id = Val(upReq).plant_id
              /\ r.timestamp = Val(upVal).readings[i].timestamp

\* Two readings inserted, the recomputation failed on the first model, the
\* upload answered success.
C17_Witness ==
    /\ upPc = "idle"
    /\ Did("logged", 0, 1)
    /\ ~IsNone(upResp)
    /\ Val(upResp).success
    /\ Len(Val(upVal).readings) = 2
    /\ Cardinality(readingsStore) = 2

\* The list is the other list plus one constant, in exact arithmetic.
ShiftedBy(predicted, actual, delta) ==
    \A i \in 1..Len(predicted) : ExactAdd(predicted[i], Negative(actual[i])) = delta

IsInteger(x) == \A i \in 1..Min(FracDigits, Len(x.mag)) : x.mag[i] = 0

Prepared == ~IsNone(fnIn) /\ ~IsNone(fnOut)
Resolves(name, data_point, power_plant_capacity) ==
    prepare_data([power_plant_id |-> 1, forecast_data |-> <<data_point>>], <<name>>,
                 power_plant_capacity).value[1][1]
C22_MatrixFollowsPointsAndFeatures ==
    Prepared =>
        LET in == Val(fnIn)
            points == in.weather_forecast.forecast_data
            out == Val(fnOut)
        IN  (\A j \in 1..Len(in.model_features) : in.model_features[j] \in SupportedFeatures)
            => /\ ~Raised(out)
               /\ Len(out.value) = Len(points)
               /\ \A i \in 1..Len(points) :
                     /\ Len(out.value[i]) = Len(in.model_features)
                     /\ \A j \in 1..Len(in.model_features) :
                           out.value[i][j] =
                               Resolves(in.model_features[j], points[i],
                                        in.power_plant_capacity)
C22_Witness ==
    /\ Prepared
    /\ Val(fnIn).model_features = <<"hour", "hour">>
    /\ Len(Val(fnIn).weather_forecast.forecast_data) = 2
    /\ ~Raised(Val(fnOut))
    /\ Val(fnOut).value = <<<<FirstCron, FirstCron>>, <<FirstCron + 1, FirstCron + 1>>>>

\* C23: a feature list with any name no calculator is registered for makes
\* prepare_data raise, whatever the forecast and wherever the name stands in
\* the list; no matrix, not even a partial one, is returned.
C23_UnsupportedFeatureRaises ==
    Prepared =>
        ((\E j \in 1..Len(Val(fnIn).model_features) :
              Val(fnIn).model_features[j] \notin SupportedFeatures)
         => Raised(Val(fnOut)))
C23_Witness ==
    /\ Prepared
    /\ Val(fnIn).model_features = <<"hour", "made_up_feature">>
    /\ Val(fnIn).weather_forecast.forecast_data # <<>>
    /\ Raised(Val(fnOut))

\* C24: in a returned matrix a cell is 0 when its calculator returns None or
\* the conversion of its value raises, and is the calculator's value
\* otherwise; the row keeps its length and its other cells.
CellFails(name, data_point, context) ==
    \/ IsNone(Calculator(name, data_point, context))
    \/ Raised(ToFloat(name, Val(Calculator(name, data_point, context))))
C24_OnlyFailedCellIsZero ==
    (Prepared /\ ~Raised(Val(fnOut))) =>
        LET in == Val(fnIn)
            points == in.weather_forecast.forecast_data
            context == [power_plant_capacity |-> in.power_plant_capacity,
                        power_plant_id |-> in.weather_forecast.power_plant_id]
            out == Val(fnOut).value
        IN  /\ Len(out) = Len(points)
            /\ \A i \in 1..Len(points) :
                  /\ Len(out[i]) = Len(in.model_features)
                  /\ \A j \in 1..Len(in.model_features) :
                        out[i][j] =
                            IF CellFails(in.model_features[j], points[i], context)
                            THEN 0
                            ELSE Val(Calculator(in.model_features[j], points[i], context))
C24_Witness ==
    /\ Prepared
    /\ ~Raised(Val(fnOut))
    /\ \E i \in 1..Len(Val(fnOut).value) :
          /\ IsNone(Val(fnIn).weather_forecast.forecast_data[i].temperature_2m)
          /\ Val(fnIn).model_features = <<"temperature_2m", "hour">>
          /\ Val(fnOut).value[i] = <<0, FirstCron>>

\* C25: a request to POST /generate is answered with the success message,
\* and only after a run of predict() begun for it has returned.
C25_GenerateRunsThePipeline ==
    (~IsNone(apiResp) /\ Val(apiResp).endpoint = "generate") =>
        /\ Val(apiResp).message = "Prediction process triggered successfully"
        /\ Val(apiResp).run = "returned"

\* C26: a request to POST /metric/calculate/{model_id} is answered with
\* success after both recomputations were done, and with 500 only when one
\* of the two recomputations raised.
C26_RecalculationSucceedsUnlessItFails ==
    (~IsNone(apiResp) /\ Val(apiResp).endpoint = "calculate") =>
        IF Val(apiResp).status = 200
        THEN Val(apiResp).horizon = "done" /\ Val(apiResp).cycle = "done"
        ELSE "raised" \in {Val(apiResp).horizon, Val(apiResp).cycle}

\* C27: the metrics of a playground prediction are computed over the rows
\* that have a prediction and whose timestamp is that of a stored reading of
\* the model's plant, each such row paired with that reading: with at least
\* one such row the answer holds MAE, RMSE and MBE of exactly these pairs,
\* with none it holds no metric.
PairedRows(resp) ==
    SelectSeq([i \in 1..Len(resp.timestamps) |-> i],
              LAMBDA i : /\ i <= Len(resp.raw_predictions)
                         /\ \E r \in resp.stored : /\ r.plant_id = resp.plant_id
                                                   /\ r.timestamp = resp.timestamps[i])
ReadingAt(resp, i) ==
    (CHOOSE r \in resp.stored : /\ r.plant_id = resp.plant_id
                                /\ r.timestamp = resp.timestamps[i]).power_w
C27_MetricsOverMatchedPairs ==
    (~IsNone(apiResp) /\ Val(apiResp).endpoint = "playground") =>
        LET resp == Val(apiResp)
            rows == PairedRows(resp)
            predicted == [k \in 1..Len(rows) |-> resp.raw_predictions[rows[k]]]
            actual == [k \in 1..Len(rows) |-> ReadingAt(resp, rows[k])]
        IN  IF rows = <<>> THEN resp.metrics = <<>>
            ELSE /\ Len(resp.metrics) = 3
                 /\ \A t \in {"MAE", "RMSE", "MBE"} :
                       \E k \in 1..3 :
                          /\ resp.metrics[k].metric_type = t
                          /\ resp.metrics[k].value = _calculate_metric(t, predicted, actual).value
C27_Witness ==
    /\ ~IsNone(apiResp)
    /\ Val(apiResp).endpoint = "playground"
    /\ Len(Val(apiResp).timestamps) = 2
    /\ Len(PairedRows(Val(apiResp))) = 1
    /\ Val(apiResp).timestamps[1] = FirstCron * QuartersPerHour + 6
    /\ Val(apiResp).raw_predictions = <<90, 110>>
    /\ \E k \in 1..3 : Val(apiResp).metrics[k] = [metric_type |-> "MBE", value |-> Number(10, 1)]

\* C28: while synchronous code holds the event loop, and so during all of
\* predict(), no table is written, no insert is lost and no task begins: the
\* tasks are only created, pending.  The tasks begin in the order of their
\* creation, and a run creates its forecast batch task before any of its
\* prediction batch tasks.
CreatedOnly ==
    /\ UNCHANGED <<wfStore, predStore, lostWrites, lastWrite>>
    /\ Len(tasks') >= Len(tasks)
    /\ \A i \in 1..Len(tasks) : tasks'[i] = tasks[i]
    /\ \A i \in (Len(tasks) + 1)..Len(tasks') : ~tasks'[i].started
Begins(i) ==
    /\ ~tasks[i].started
    /\ \/ tasks' = RemoveAt(tasks, i)
       \/ tasks' = [tasks EXCEPT ![i].started = TRUE]
BegunInCreationOrder ==
    /\ \A i, j \in 1..Len(tasks') : (i < j /\ tasks'[j].started) => tasks'[i].started
    /\ \A i \in 1..Len(tasks) :
          (Begins(i) /\ \A k \in 1..(i - 1) : ~Begins(k))
              => \A k \in 1..(i - 1) : tasks[k].started
ForecastBatchFirst ==
    (Len(tasks') > Len(tasks) /\ tasks'[Len(tasks')].kind = "predictions") =>
        \E i \in 1..Len(tasks) : tasks[i].kind = "forecasts" /\ ~tasks[i].started
C28_WritesBeginAfterPredictInOrder ==
    [][/\ pc # "idle" => CreatedOnly
       /\ BegunInCreationOrder
       /\ ForecastBatchFirst]_vars
C28_Witness ==
    /\ result = "returned"
    /\ pc = "idle"
    /\ Len(tasks) = 2
    /\ tasks[1].kind = "forecasts"
    /\ tasks[1].started
    /\ tasks[1].batch[1].forecast_data # <<>>
    /\ tasks[2].kind = "predictions"
    /\ ~tasks[2].started

\* C29: after every call of the wrapper the flag is true exactly when the
\* AsyncIOScheduler is running; start() on a running wrapper and stop() on
\* one that is not running change neither; and get_status() with the flag
\* false answers running = false and no job.
LastCall == Val(apiResp).calls[Len(Val(apiResp).calls)]
C29_FlagTracksTheScheduler ==
    [][/\ isRunning' <=> (scheduler'.state = "running")
       /\ (LastCall'.op = "start" /\ isRunning) => UNCHANGED <<isRunning, scheduler>>
       /\ (LastCall'.op = "stop" /\ ~isRunning) => UNCHANGED <<isRunning, scheduler>>
       /\ (LastCall'.op = "get_status" /\ ~isRunning)
            => Val(Val(apiResp').status) = [running |-> FALSE, jobs |-> {}]]_vars

\* C30: with a provider that answers, the connector returns a forecast for
\* a plant exactly when both its latitude and its longitude are not null,
\* whatever their values, zero included.
C30_FetchedIffCoordinatesPresent ==
    (~IsNone(fnIn) /\ ~IsNone(fnOut) /\ Val(fnIn).answer.tag = "data") =>
        (~IsNone(Val(fnOut)) <=> (/\ ~IsNone(Val(fnIn).power_plant.latitude)
                                  /\ ~IsNone(Val(fnIn).power_plant.longitude)))

====
